---------------------------- MODULE Spec2Model ----------------------------
(***************************************************************************)
(* A model of the docstring-to-ahelp converter (parsers/docutils.py) and   *)
(* of the batch loop that drives it (doc2ahelp.py).                        *)
(*                                                                         *)
(* Text is a sequence of one-character strings, so that strip, split,      *)
(* startswith, lower and join are computed as Python computes them.        *)
(* A value that may be None is a record [some, v].                         *)
(***************************************************************************)
EXTENDS Naturals, Sequences, FiniteSets, TLC

\* ------------------------------------------------------------------ bounds

\* Longest document (number of top-level nodes) handed to convert_docutils.
MaxDocLen == 3

\* Number of symbols in the batch of doc2ahelp.convert.
MaxBatch == 2

\* Longest document of a symbol in the batch specification.
MaxBatchDocLen == 2

\* Longest document of a symbol in the version-history specification.
MaxHistoryDocLen == 3

\* ------------------------------------------------------------- None / Some

None == [some |-> FALSE, v |-> <<>>]

Some(s) == [some |-> TRUE, v |-> s]

\* ------------------------------------------------------------------ strings

IsSpace(c) == c \in {" ", "\n", "\t"}

UpperLetters == <<"A","B","C","D","E","F","G","H","I","J","K","L","M",
                  "N","O","P","Q","R","S","T","U","V","W","X","Y","Z">>

LowerLetters == <<"a","b","c","d","e","f","g","h","i","j","k","l","m",
                  "n","o","p","q","r","s","t","u","v","w","x","y","z">>

\* str.islower() of one character
IsLowerChar(c) == \E i \in 1..26 : LowerLetters[i] = c

LowerChar(c) ==
    IF \E i \in 1..26 : UpperLetters[i] = c
    THEN LowerLetters[CHOOSE i \in 1..26 : UpperLetters[i] = c]
    ELSE c

\* str.lower()
Lower(s) == [i \in 1..Len(s) |-> LowerChar(s[i])]

\* str.startswith(p)
StartsWith(s, p) == Len(p) <= Len(s) /\ SubSeq(s, 1, Len(p)) = p

\* str.endswith(p)
EndsWith(s, p) == Len(p) <= Len(s) /\ SubSeq(s, Len(s) - Len(p) + 1, Len(s)) = p

\* str.find(p): the first index (from 1) where p occurs, 0 when it does not
\* (Python's -1 is 0 here and Python's k is k+1).
Find(s, p) ==
    LET hits == {i \in 1..(Len(s) + 1) :
                    i + Len(p) - 1 <= Len(s) /\ SubSeq(s, i, i + Len(p) - 1) = p}
    IN IF hits = {} THEN 0 ELSE CHOOSE i \in hits : \A j \in hits : i <= j

\* p in s
Contains(s, p) == Find(s, p) # 0

\* the text from index i (from 1) to the end
From(s, i) == SubSeq(s, i, Len(s))

RECURSIVE LStrip(_)
LStrip(s) == IF s # <<>> /\ IsSpace(s[1]) THEN LStrip(Tail(s)) ELSE s

RECURSIVE RStrip(_)
RStrip(s) == IF s # <<>> /\ IsSpace(s[Len(s)])
             THEN RStrip(SubSeq(s, 1, Len(s) - 1)) ELSE s

\* str.strip()
Strip(s) == RStrip(LStrip(s))

\* the length of the leading run of non-space characters
RECURSIVE WordLen(_)
WordLen(s) == IF s = <<>> \/ IsSpace(s[1]) THEN 0 ELSE 1 + WordLen(Tail(s))

\* str.split(): the whitespace-separated words
RECURSIVE Split(_)
Split(s) ==
    LET t == LStrip(s)
    IN IF t = <<>> THEN <<>>
       ELSE <<SubSeq(t, 1, WordLen(t))>> \o Split(From(t, WordLen(t) + 1))

\* str.split(maxsplit=1): the first word, then the rest with its leading
\* whitespace removed and its trailing whitespace kept
Split1(s) ==
    LET t == LStrip(s)
        w == WordLen(t)
        r == LStrip(From(t, w + 1))
    IN IF t = <<>> THEN <<>>
       ELSE IF r = <<>> THEN <<SubSeq(t, 1, w)>>
       ELSE <<SubSeq(t, 1, w), r>>

\* str.split(c) on a one-character separator
RECURSIVE SplitOn(_, _)
SplitOn(s, c) ==
    LET k == Find(s, <<c>>)
    IN IF k = 0 THEN <<s>>
       ELSE <<SubSeq(s, 1, k - 1)>> \o SplitOn(From(s, k + 1), c)

\* str.split(c, maxsplit=1)
SplitOn1(s, c) ==
    LET k == Find(s, <<c>>)
    IN IF k = 0 THEN <<s>> ELSE <<SubSeq(s, 1, k - 1), From(s, k + 1)>>

\* sep.join(parts)
RECURSIVE Join(_, _)
Join(parts, sep) ==
    IF parts = <<>> THEN <<>>
    ELSE IF Len(parts) = 1 THEN parts[1]
    ELSE parts[1] \o sep \o Join(Tail(parts), sep)

\* -------------------------------------------------------------- input nodes

\* A docutils node: its tag, its own text (a #text node), its children and
\* the attributes the converter reads.
Node(tag, text, kids) ==
    [tagname |-> tag, text |-> text, kids |-> kids,
     name |-> None, refuri |-> None, names |-> <<>>, xmlspace |-> "",
     cols |-> 0]

Txt(s) == Node("#text", s, <<>>)

\* The tags whose astext() joins the children with nothing between them
\* (docutils TextElement); every other element joins them with a blank line.
TextElements ==
    {"paragraph", "rubric", "term", "literal", "emphasis", "strong",
     "reference", "title_reference", "footnote_reference",
     "citation_reference", "label", "field_name", "doctest_block",
     "literal_block", "comment", "target", "versionadded", "versionchanged"}

\* node.astext() of docutils
RECURSIVE NodeText(_)
NodeText(node) ==
    IF node.tagname = "#text" THEN node.text
    ELSE Join([i \in 1..Len(node.kids) |-> NodeText(node.kids[i])],
              IF node.tagname \in TextElements THEN <<>> ELSE <<"\n", "\n">>)

\* ---------------------------------------------------------- output elements

\* An ElementTree element: tag, the title and link attributes, text, tail
\* and children.
Element(tag) ==
    [tag |-> tag, title |-> None, link |-> None, text |-> None,
     tail |-> None, kids |-> <<>>]

\* ElementTree.SubElement(parent, ...) / parent.append(child)
AddChild(parent, child) == [parent EXCEPT !.kids = Append(@, child)]

\* --------------------------------------------- module state of the converter

\* reset_stored_versions: the fresh version-history store
FreshStore ==
    [set |-> TRUE, versionadded |-> <<>>, versionchanged |-> <<>>,
     titles |-> {}, DONE |-> FALSE]

\* store_versions = None, the value at import
NoStore == [FreshStore EXCEPT !.set = FALSE]

\* What a call reads and writes besides its arguments: the references set,
\* the version store, the messages written to stderr, and the exception
\* that is propagating (exc = "" when none is).
Context(refs, store) ==
    [refs |-> refs, store |-> store, log |-> <<>>, exc |-> "", msg |-> ""]

\* dbg(msg, info)
dbg(ctx, msg, info) == [ctx EXCEPT !.log = Append(@, [info |-> info, msg |-> msg])]

\* raise exc(msg)
Raise(ctx, exc, msg) == [ctx EXCEPT !.exc = exc, !.msg = msg]

Failed(ctx) == ctx.exc # ""

\* a call's result: the context it leaves and the value it returns
Ret(ctx, out) == [ctx |-> ctx, out |-> out]

\* ---------------------------------------------- reference / target registry

process_reference(ctx, node) ==
    IF Failed(ctx) THEN Ret(ctx, [txt |-> <<>>, uri |-> None])
    ELSE IF node.tagname # "reference"
    THEN Ret(Raise(ctx, "AssertionError", "reference"), [txt |-> <<>>, uri |-> None])
    ELSE Ret(IF node.name.some
             THEN [ctx EXCEPT !.refs = @ \cup {Lower(node.name.v)}]
             ELSE ctx,
             [txt |-> NodeText(node), uri |-> node.refuri])

process_target(ctx, node) ==
    IF Failed(ctx) THEN ctx
    ELSE IF node.tagname # "target" THEN Raise(ctx, "AssertionError", "target")
    ELSE IF Len(node.names) # 1 THEN Raise(ctx, "AssertionError", "len(names) == 1")
    ELSE IF Lower(node.names[1]) \notin ctx.refs
    THEN Raise(ctx, "ValueError", "Found un-referenced target block")
    ELSE ctx

\* ------------------------------------------------------------ inline text

\* re.match(XSMODEL_RE, out): XS, then one or more of a-z and 0-9, then the
\* end of the text or a final newline
MatchesXSMODEL_RE(out) ==
    LET body == IF out # <<>> /\ out[Len(out)] = "\n"
                THEN SubSeq(out, 1, Len(out) - 1) ELSE out
    IN /\ StartsWith(body, <<"X","S">>)
       /\ Len(body) > 2
       /\ \A i \in 3..Len(body) :
             IsLowerChar(body[i])
             \/ body[i] \in {"0","1","2","3","4","5","6","7","8","9"}

\* The modules whose title_reference is kept whole.
KeptModules ==
    {<<"s","h","e","r","p","a",".","s","i","m">>, <<"s","h","e","r","p","a",".","u","t","i","l","s">>, <<"s","h","e","r","p","a",".","a","s","t","r","o",".","d","a","t","a","s","t","a","c","k">>,
     <<"s","h","e","r","p","a",".","u","i">>, <<"s","h","e","r","p","a",".","a","s","t","r","o",".","u","i">>, <<"s","h","e","r","p","a",".","u","t","i","l","s",".","l","o","g","g","i","n","g">>}

\* The backquote character (a backquote cannot be written in a TLA+ string).
Backquote == "backquote"

Quoted(s) == <<Backquote>> \o s \o <<Backquote>>

Bracketed(s) == <<"[">> \o s \o <<"]">>

\* the names JDPileup and PSFModel keep their capitals
astext_title_reference_faulty(ctx, node) ==
    LET out == NodeText(node)
        toks == SplitOn(out, ".")
        ltok == toks[Len(toks)]
    IN IF out \in KeptModules THEN Ret(ctx, Quoted(out))
       ELSE IF StartsWith(out, <<"s","h","e","r","p","a",".">>) \/ StartsWith(out, <<"~">>)
       THEN IF ~(Len(toks) > 1)
            THEN Ret(Raise(ctx, "AssertionError", "Unexpected reference"), <<>>)
            ELSE Ret(ctx, Quoted(ltok))
       ELSE IF StartsWith(out, <<"s","h","e","r","p","a">>)
       THEN Ret(Raise(ctx, "AssertionError", "reference"), <<>>)
       ELSE Ret(ctx, Quoted(out))

astext_title_reference(ctx, node) ==
    LET out == NodeText(node)
        toks == SplitOn(out, ".")
        ltok == toks[Len(toks)]
    IN IF out \in KeptModules THEN Ret(ctx, Quoted(out))
       ELSE IF StartsWith(out, <<"s","h","e","r","p","a",".">>) \/ StartsWith(out, <<"~">>)
       THEN IF ~(Len(toks) > 1)
            THEN Ret(Raise(ctx, "AssertionError", "Unexpected reference"), <<>>)
            ELSE IF ltok \in {<<"J","D","P","i","l","e","u","p">>, <<"P","S","F","M","o","d","e","l">>}
            THEN Ret(ctx, Quoted(Lower(ltok)))
            ELSE Ret(ctx, Quoted(ltok))
       ELSE IF StartsWith(out, <<"s","h","e","r","p","a">>)
       THEN Ret(Raise(ctx, "AssertionError", "reference"), <<>>)
       ELSE Ret(ctx, Quoted(out))

astext_literal(ctx, node) ==
    LET out == NodeText(node)
    IN IF out \in {<<"T","r","u","e">>, <<"F","a","l","s","e">>, <<"S","t","r","i","n","g","I","O">>} THEN Ret(ctx, out)
       ELSE IF StartsWith(out, <<"X","S">>) /\ ~MatchesXSMODEL_RE(out)
       THEN Ret(Raise(ctx, "AssertionError", "literal"), <<>>)
       ELSE Ret(ctx, Lower(out))

RECURSIVE astext(_, _)
\* the children of a container, each rendered in turn with astext
RECURSIVE astext_children(_, _)
astext_children(ctx, kids) ==
    IF kids = <<>> \/ Failed(ctx) THEN Ret(ctx, <<>>)
    ELSE LET then_h(h) ==
                 LET then_t(t) ==
                         Ret(t.ctx, <<h.out>> \o t.out)
                 IN then_t(astext_children(h.ctx, Tail(kids)))
         IN then_h(astext(ctx, kids[1]))

astext_footnote(ctx, node) ==
    IF Len(node.kids) < 1 THEN Ret(Raise(ctx, "IndexError", "footnote"), <<>>)
    ELSE IF node.kids[1].tagname # "label"
    THEN Ret(Raise(ctx, "AssertionError", "label"), <<>>)
    ELSE IF Len(node.kids) < 2 THEN Ret(Raise(ctx, "IndexError", "footnote"), <<>>)
    ELSE IF node.kids[2].tagname \in {"paragraph", "enumerated_list"}
    THEN LET then_cts(cts) ==
                 Ret(cts.ctx,
                     Bracketed(NodeText(node.kids[1])) \o <<" ">> \o cts.out)
         IN then_cts(astext(ctx, node.kids[2]))
    ELSE Ret(Raise(ctx, "ValueError", "Unexpected node in footnote"), <<>>)

astext(ctx, node) ==
    IF Failed(ctx) THEN Ret(ctx, <<>>)
    ELSE CASE node.tagname = "system_message" ->
                Ret(dbg(ctx, "- skipping message", "DBG"), <<>>)
           [] node.tagname \in {"#text", "reference", "emphasis", "strong"} ->
                Ret(ctx, NodeText(node))
           [] node.tagname = "footnote" -> astext_footnote(ctx, node)
           [] node.tagname \in {"footnote_reference", "citation_reference"} ->
                Ret(ctx, Bracketed(NodeText(node)))
           [] node.tagname = "title_reference" -> astext_title_reference(ctx, node)
           [] node.tagname = "literal" -> astext_literal(ctx, node)
           [] node.tagname = "target" -> Ret(process_target(ctx, node), <<>>)
           [] node.tagname \in {"paragraph", "list_item", "enumerated_list"} ->
                LET then_r(r) ==
                        Ret(r.ctx, Join(r.out, <<" ">>))
                IN then_r(astext_children(ctx, node.kids))
           [] OTHER -> Ret(Raise(ctx, "AssertionError", "astext of this tag"), <<>>)

\* ------------------------------------------------------------- paragraphs

\* make_href: the HREF element of a reference node
make_href(ctx, node) ==
    LET r == process_reference(ctx, node)
    IN Ret(r.ctx, [Element("HREF") EXCEPT !.text = Some(r.out.txt),
                                          !.link = r.out.uri])

\* str(uri) inside an f-string
StrOf(opt) == IF opt.some THEN opt.v ELSE <<"N","o","n","e">>

\* make_href_text: "<text> [<uri>]"
make_href_text(ctx, node) ==
    LET r == process_reference(ctx, node)
    IN Ret(r.ctx, r.out.txt \o <<" ", "[">> \o StrOf(r.out.uri) \o <<"]">>)

\* the text gathered is always made the text of the PARA
FlushText_faulty(out, text) == [out EXCEPT !.text = Some(Join(text, <<"\n">>))]

\* The text gathered since the last HREF becomes the PARA's text when no
\* HREF has been added yet, and the tail of the last HREF otherwise.
FlushText(out, text) ==
    IF out.kids = <<>>
    THEN [out EXCEPT !.text = Some(Join(text, <<"\n">>))]
    ELSE [out EXCEPT !.kids[Len(out.kids)].tail = Some(Join(text, <<"\n">>))]

\* the loop of convert_para over the children of the paragraph
RECURSIVE convert_para_loop(_, _, _, _, _)
convert_para_loop(ctx, kids, text, out, complex) ==
    IF Failed(ctx) THEN Ret(ctx, out)
    ELSE IF kids = <<>> THEN Ret(ctx, FlushText(out, text))
    ELSE LET n == kids[1]
         IN CASE n.tagname = "target" ->
                   convert_para_loop(process_target(ctx, n), Tail(kids),
                                     text, out, complex)
              [] n.tagname = "reference" /\ ~complex ->
                   LET r1 == process_reference(ctx, n)
                       then_r2(r2) ==
                           convert_para_loop(r2.ctx, Tail(kids),
                                             Append(text, r2.out), out, complex)
                   IN then_r2(make_href_text(r1.ctx, n))
              [] n.tagname = "reference" /\ complex ->
                   LET then_h(h) ==
                           convert_para_loop(h.ctx, Tail(kids), <<>>,
                                             AddChild(FlushText(out, text), h.out),
                                             complex)
                   IN then_h(make_href(ctx, n))
              [] OTHER ->
                   LET then_r(r) ==
                           convert_para_loop(r.ctx, Tail(kids),
                                             Append(text, r.out), out, complex)
                   IN then_r(astext(ctx, n))

convert_para(ctx, para, complex) ==
    convert_para_loop(
        IF para.tagname # "paragraph"
        THEN dbg(ctx, "- paragraph handling", "DBG") ELSE ctx,
        para.kids, <<>>, Element("PARA"), complex)

\* ------------------------------------------------------- block converters
\* A converter returns the sequence of elements make_para_blocks passes on:
\* none for a converter that returns None, one for a single element.

Verbatim(text) == [Element("VERBATIM") EXCEPT !.text = Some(text)]

convert_doctest_block(ctx, para) ==
    IF para.tagname # "doctest_block" \/ para.xmlspace # "preserve"
    THEN Ret(Raise(ctx, "AssertionError", "doctest_block"), <<>>)
    ELSE Ret(ctx, <<Verbatim(NodeText(para))>>)

convert_literal_block(ctx, para) ==
    IF para.tagname # "literal_block" \/ para.xmlspace # "preserve"
    THEN Ret(Raise(ctx, "AssertionError", "literal_block"), <<>>)
    ELSE Ret(ctx, <<Verbatim(NodeText(para))>>)

RECURSIVE convert_list_items_loop(_, _, _)
convert_list_items_loop(ctx, kids, out) ==
    IF Failed(ctx) \/ kids = <<>> THEN Ret(ctx, out)
    ELSE IF kids[1].tagname # "list_item"
    THEN Ret(Raise(ctx, "AssertionError", "list_item"), out)
    ELSE LET then_r(r) ==
                 convert_list_items_loop(
                     r.ctx, Tail(kids),
                     AddChild(out, [Element("ITEM") EXCEPT !.text = Some(r.out)]))
         IN then_r(astext(ctx, kids[1]))

convert_list_items(ctx, para) ==
    LET then_r(r) ==
            Ret(r.ctx, <<r.out>>)
    IN then_r(convert_list_items_loop(ctx, para.kids, Element("LIST")))

\* the doctest blocks are joined by a single newline
convert_block_quote_faulty(ctx, para) ==
    IF para.tagname # "block_quote"
    THEN Ret(Raise(ctx, "AssertionError", "block_quote"), <<>>)
    ELSE IF para.kids = <<>> THEN Ret(Raise(ctx, "IndexError", "para[0]"), <<>>)
    ELSE IF para.kids[1].tagname \in {"bullet_list", "enumerated_list"}
    THEN IF Len(para.kids) # 1
         THEN Ret(Raise(ctx, "AssertionError", "len(para) == 1"), <<>>)
         ELSE convert_list_items(ctx, para.kids[1])
    ELSE IF \A i \in 1..Len(para.kids) : para.kids[i].tagname = "doctest_block"
    THEN Ret(ctx, <<Verbatim(Join([i \in 1..Len(para.kids) |->
                                      NodeText(para.kids[i])],
                                  <<"\n">>))>>)
    ELSE IF para.kids[1].tagname = "paragraph"
    THEN IF Len(para.kids) # 1
         THEN Ret(Raise(ctx, "AssertionError", "len(para) == 1"), <<>>)
         ELSE LET then_r(r) ==
                      Ret(r.ctx, <<Verbatim(r.out)>>)
              IN then_r(astext(ctx, para.kids[1]))
    ELSE Ret(Raise(ctx, "ValueError", "Unexpected block_quote element"), <<>>)

convert_block_quote(ctx, para) ==
    IF para.tagname # "block_quote"
    THEN Ret(Raise(ctx, "AssertionError", "block_quote"), <<>>)
    ELSE IF para.kids = <<>> THEN Ret(Raise(ctx, "IndexError", "para[0]"), <<>>)
    ELSE IF para.kids[1].tagname \in {"bullet_list", "enumerated_list"}
    THEN IF Len(para.kids) # 1
         THEN Ret(Raise(ctx, "AssertionError", "len(para) == 1"), <<>>)
         ELSE convert_list_items(ctx, para.kids[1])
    ELSE IF \A i \in 1..Len(para.kids) : para.kids[i].tagname = "doctest_block"
    THEN Ret(ctx, <<Verbatim(Join([i \in 1..Len(para.kids) |->
                                      NodeText(para.kids[i])],
                                  <<"\n", "\n">>))>>)
    ELSE IF para.kids[1].tagname = "paragraph"
    THEN IF Len(para.kids) # 1
         THEN Ret(Raise(ctx, "AssertionError", "len(para) == 1"), <<>>)
         ELSE LET then_r(r) ==
                      Ret(r.ctx, <<Verbatim(r.out)>>)
              IN then_r(astext(ctx, para.kids[1]))
    ELSE Ret(Raise(ctx, "ValueError", "Unexpected block_quote element"), <<>>)

convert_enumerated_list(ctx, para) ==
    IF para.tagname # "enumerated_list"
    THEN Ret(Raise(ctx, "AssertionError", "enumerated_list"), <<>>)
    ELSE convert_list_items(ctx, para)

convert_bullet_list(ctx, para) ==
    IF para.tagname # "bullet_list"
    THEN Ret(Raise(ctx, "AssertionError", "bullet_list"), <<>>)
    ELSE convert_list_items(ctx, para)

Data(text) == [Element("DATA") EXCEPT !.text = Some(text)]

Row(cells) == [Element("ROW") EXCEPT !.kids = cells]

\* the asserts on one definition_list_item
GoodDefinitionItem(el) ==
    /\ el.tagname = "definition_list_item"
    /\ Len(el.kids) >= 2
    /\ el.kids[1].tagname = "term"
    /\ Len(el.kids[1].kids) >= 1
    /\ el.kids[1].kids[1].tagname \in {"literal", "#text"}
    /\ el.kids[2].tagname = "definition"
    /\ Len(el.kids[2].kids) = 1
    /\ el.kids[2].kids[1].tagname = "paragraph"

RECURSIVE convert_definition_list_loop(_, _, _)
convert_definition_list_loop(ctx, kids, out) ==
    IF Failed(ctx) \/ kids = <<>> THEN Ret(ctx, out)
    ELSE IF ~GoodDefinitionItem(kids[1])
    THEN Ret(Raise(ctx, "AssertionError", "definition_list_item"), out)
    ELSE LET then_r(r) ==
                 convert_definition_list_loop(
                     r.ctx, Tail(kids),
                     AddChild(out, Row(<<Data(NodeText(kids[1].kids[1])),
                                         Data(r.out)>>)))
         IN then_r(astext(ctx, kids[1].kids[2].kids[1]))

\* convert_definition_list, which is convert_definition_list_as_table
convert_definition_list(ctx, para) ==
    IF para.tagname # "definition_list"
    THEN Ret(Raise(ctx, "AssertionError", "definition_list"), <<>>)
    ELSE LET then_r(r) ==
                 Ret(r.ctx, IF Failed(r.ctx) THEN <<>> ELSE <<r.out>>)
         IN then_r(convert_definition_list_loop(
                       ctx, para.kids,
                       AddChild(Element("TABLE"),
                                Row(<<Data(<<"I","t","e","m">>), Data(<<"D","e","f","i","n","i","t","i","o","n">>)>>))))

convert_definition(ctx, para) ==
    IF para.tagname # "definition"
    THEN Ret(Raise(ctx, "AssertionError", "definition"), <<>>)
    ELSE LET then_r(r) ==
                 Ret(r.ctx, <<[Element("PARA") EXCEPT
                                  !.text = Some(Join(r.out, <<"\n">>))]>>)
         IN then_r(astext_children(ctx, para.kids))

\* the text of one table entry, or the assertion it fails
EntryOk(entry) ==
    /\ entry.tagname = "entry"
    /\ \/ Len(entry.kids) = 0
       \/ Len(entry.kids) = 1 /\ entry.kids[1].tagname = "paragraph"

\* add_table_row: one ROW for every row of a thead or tbody
add_table_row(ctx, out, el) ==
    IF \E i \in 1..Len(el.kids) :
          \/ el.kids[i].tagname # "row"
          \/ \E j \in 1..Len(el.kids[i].kids) : ~EntryOk(el.kids[i].kids[j])
    THEN Ret(Raise(ctx, "AssertionError", "table row"), out)
    ELSE Ret(ctx,
             [out EXCEPT !.kids = @ \o
                 [i \in 1..Len(el.kids) |->
                     Row([j \in 1..Len(el.kids[i].kids) |->
                             Data(IF Len(el.kids[i].kids[j].kids) = 0 THEN <<>>
                                  ELSE NodeText(el.kids[i].kids[j]))])]])

RECURSIVE convert_table_loop(_, _, _)
convert_table_loop(ctx, kids, out) ==
    IF Failed(ctx) \/ kids = <<>> THEN Ret(ctx, out)
    ELSE IF kids[1].tagname = "colspec"
    THEN convert_table_loop(ctx, Tail(kids), out)
    ELSE IF kids[1].tagname \in {"thead", "tbody"}
    THEN LET then_r(r) ==
                 convert_table_loop(r.ctx, Tail(kids), r.out)
         IN then_r(add_table_row(ctx, out, kids[1]))
    ELSE Ret(Raise(ctx, "ValueError", "Unexpected tag"), out)

convert_table(ctx, tbl) ==
    IF \/ tbl.tagname # "table"
       \/ Len(tbl.kids) # 1
       \/ tbl.kids[1].tagname # "tgroup"
       \/ ~(tbl.kids[1].cols >= 1)
    THEN Ret(Raise(ctx, "AssertionError", "table"), <<>>)
    ELSE LET then_r(r) ==
                 Ret(r.ctx, IF Failed(r.ctx) THEN <<>> ELSE <<r.out>>)
         IN then_r(convert_table_loop(ctx, tbl.kids[1].kids, Element("TABLE")))

convert_note(ctx, note) ==
    IF \/ note.tagname # "note"
       \/ \E i \in 1..Len(note.kids) : note.kids[i].tagname # "paragraph"
       \/ ~(Len(note.kids) < 3)
    THEN Ret(Raise(ctx, "AssertionError", "note"), <<>>)
    ELSE IF Len(note.kids) = 0 THEN Ret(Raise(ctx, "IndexError", "note[0]"), <<>>)
    ELSE LET then_t(t) ==
                 LET then_p(p) ==
                         IF Failed(p.ctx) THEN Ret(p.ctx, <<>>)
                         ELSE IF t.out = <<"P","a","r","a","m","e","t","e","r"," ","r","e","n","a","m","e","s"," ","i","n"," ","X","S","P","E","C"," ","1","2",".","1","1",".","1">>
                         THEN Ret(p.ctx, <<>>)
                         ELSE Ret(p.ctx, <<[p.out EXCEPT !.title = Some(t.out)]>>)
                 IN then_p(convert_para(t.ctx, note.kids[Len(note.kids)], TRUE))
         IN then_t(IF Len(note.kids) = 1 THEN Ret(ctx, <<"N","o","t","e">>)
                   ELSE astext(ctx, note.kids[1]))

convert_warning(ctx, note) ==
    IF \/ note.tagname # "warning"
       \/ \E i \in 1..Len(note.kids) : note.kids[i].tagname # "paragraph"
       \/ ~(Len(note.kids) < 3)
    THEN Ret(Raise(ctx, "AssertionError", "warning"), <<>>)
    ELSE IF Len(note.kids) # 1
    THEN Ret(Raise(ctx, "NotImplementedError", "need to handle"), <<>>)
    ELSE LET then_p(p) ==
                 IF Failed(p.ctx) THEN Ret(p.ctx, <<>>)
                 ELSE Ret(p.ctx, <<[p.out EXCEPT !.title = Some(<<"W","a","r","n","i","n","g">>)]>>)
         IN then_p(convert_para(ctx, note.kids[1], TRUE))

\* ---------------------------------------------------------- version history

IsDigit(c) == c \in {"0","1","2","3","4","5","6","7","8","9"}

\* the rule of release 4.10.1 is left out
convert_version_number_faulty(ctx, v) ==
    LET toks == SplitOn(v, ".")
    IN IF Len(toks) # 3 \/ toks[1] # <<"4">>
       THEN Ret(Raise(ctx, "AssertionError", "version number"), <<>>)
       ELSE IF toks[3] = <<"0">> THEN Ret(ctx, toks[1] \o <<".">> \o toks[2])
       ELSE IF StartsWith(v, <<"4",".","1","7",".">>) THEN Ret(ctx, <<"4",".","1","8">>)
       ELSE IF StartsWith(v, <<"4",".","1","6",".">>) THEN Ret(ctx, <<"4",".","1","7">>)
       ELSE IF StartsWith(v, <<"4",".","1","5",".">>) THEN Ret(ctx, <<"4",".","1","6">>)
       ELSE IF StartsWith(v, <<"4",".","1","4",".">>) THEN Ret(ctx, <<"4",".","1","5">>)
       ELSE IF StartsWith(v, <<"4",".","1","3",".">>) THEN Ret(ctx, <<"4",".","1","4">>)
       ELSE IF v = <<"4",".","1","2",".","2">> THEN Ret(ctx, <<"4",".","1","3">>)
       ELSE Ret(ctx, v)

convert_version_number(ctx, v) ==
    LET toks == SplitOn(v, ".")
    IN IF Len(toks) # 3 \/ toks[1] # <<"4">>
       THEN Ret(Raise(ctx, "AssertionError", "version number"), <<>>)
       ELSE IF toks[3] = <<"0">> THEN Ret(ctx, toks[1] \o <<".">> \o toks[2])
       ELSE IF StartsWith(v, <<"4",".","1","7",".">>) THEN Ret(ctx, <<"4",".","1","8">>)
       ELSE IF StartsWith(v, <<"4",".","1","6",".">>) THEN Ret(ctx, <<"4",".","1","7">>)
       ELSE IF StartsWith(v, <<"4",".","1","5",".">>) THEN Ret(ctx, <<"4",".","1","6">>)
       ELSE IF StartsWith(v, <<"4",".","1","4",".">>) THEN Ret(ctx, <<"4",".","1","5">>)
       ELSE IF StartsWith(v, <<"4",".","1","3",".">>) THEN Ret(ctx, <<"4",".","1","4">>)
       ELSE IF v = <<"4",".","1","2",".","2">> THEN Ret(ctx, <<"4",".","1","3">>)
       ELSE IF v = <<"4",".","1","0",".","1">> THEN Ret(ctx, <<"4",".","1","1">>)
       ELSE Ret(ctx, v)

\* re.match(XSVERSION_WARNING, s):
\* "This model requires XSPEC 12.dd.d or later" then any one character but a
\* newline, then the end of the text or a final newline
MatchesXSVERSION_WARNING(s) ==
    LET body == IF s # <<>> /\ s[Len(s)] = "\n"
                THEN SubSeq(s, 1, Len(s) - 1) ELSE s
        pre == <<"T","h","i","s"," ","m","o","d","e","l"," ","r","e","q","u","i","r","e","s"," ","X","S","P","E","C"," ","1","2",".">>
        post == <<" ","o","r"," ","l","a","t","e","r">>
        n == Len(pre)
    IN /\ Len(body) = n + 4 + Len(post) + 1
       /\ SubSeq(body, 1, n) = pre
       /\ IsDigit(body[n + 1]) /\ IsDigit(body[n + 2])
       /\ body[n + 3] = "."
       /\ IsDigit(body[n + 4])
       /\ SubSeq(body, n + 5, n + 4 + Len(post)) = post
       /\ body[Len(body)] # "\n"

\* store_versions[tagname].append(out)
StoreAppend(ctx, tagname, out) ==
    IF tagname = "versionadded"
    THEN [ctx EXCEPT !.store.versionadded = Append(@, out)]
    ELSE [ctx EXCEPT !.store.versionchanged = Append(@, out)]

\* the paragraphs after the first of a versionadded / versionchanged block
RECURSIVE convert_versionwarning_rest(_, _, _)
convert_versionwarning_rest(ctx, tagname, kids) ==
    IF Failed(ctx) \/ kids = <<>> THEN ctx
    ELSE LET then_r(r) ==
                 IF Failed(r.ctx) THEN r.ctx
                 ELSE convert_versionwarning_rest(
                          StoreAppend(r.ctx, tagname,
                                      [Element("PARA") EXCEPT !.text = Some(r.out)]),
                          tagname, Tail(kids))
         IN then_r(astext(ctx, kids[1]))

VersionLabel(tagname) ==
    IF tagname = <<"v","e","r","s","i","o","n","a","d","d","e","d">> THEN <<"A","d","d","e","d">> ELSE <<"C","h","a","n","g","e","d">>

VersionTitle(lbl, version) == lbl \o <<" ","i","n"," ","C","I","A","O"," ">> \o version

convert_versionwarning_entry(ctx, block) ==
    LET lbl == IF block.tagname = "versionadded" THEN <<"A","d","d","e","d">> ELSE <<"C","h","a","n","g","e","d">>
        then_b0(b0) ==
            LET toks == Split1(b0.out)
                then_ver(ver) ==
                    LET title == VersionTitle(lbl, ver.out)
                        fresh == title \notin ver.ctx.store.titles
                        out == [Element("PARA") EXCEPT
                                   !.title = IF fresh THEN Some(title) ELSE None,
                                   !.text = IF Len(toks) > 1 /\ ~MatchesXSVERSION_WARNING(toks[2])
                                            THEN Some(toks[2]) ELSE None]
                    IN IF Failed(b0.ctx) THEN b0.ctx
                       ELSE IF toks = <<>> THEN Raise(b0.ctx, "IndexError", "toks[0]")
                       ELSE IF Failed(ver.ctx) THEN ver.ctx
                       ELSE convert_versionwarning_rest(
                                StoreAppend([ver.ctx EXCEPT !.store.titles = @ \cup {title}],
                                            block.tagname, out),
                                block.tagname, Tail(block.kids))
            IN then_ver(convert_version_number(b0.ctx, toks[1]))
    IN then_b0(astext(ctx, block.kids[1]))

\* the flushed marker is not looked at
convert_versionwarning_faulty(ctx, block) ==
    IF ~ctx.store.set
    THEN Ret(Raise(ctx, "TypeError", "store_versions is None"), <<>>)
    ELSE IF block.tagname \notin {"versionadded", "versionchanged"}
    THEN Ret(Raise(ctx, "AssertionError", "versionxxx"), <<>>)
    ELSE IF \E i \in 1..Len(block.kids) : block.kids[i].tagname # "paragraph"
    THEN Ret(Raise(ctx, "AssertionError", "is_para"), <<>>)
    ELSE IF block.kids = <<>>
    THEN Ret(Raise(ctx, "IndexError", "block[0]"), <<>>)
    ELSE Ret(convert_versionwarning_entry(ctx, block), <<>>)

convert_versionwarning(ctx, block) ==
    IF ~ctx.store.set
    THEN Ret(Raise(ctx, "TypeError", "store_versions is None"), <<>>)
    ELSE IF ctx.store.DONE
    THEN Ret(Raise(ctx, "ValueError", "Unexpected block"), <<>>)
    ELSE IF block.tagname \notin {"versionadded", "versionchanged"}
    THEN Ret(Raise(ctx, "AssertionError", "versionxxx"), <<>>)
    ELSE IF \E i \in 1..Len(block.kids) : block.kids[i].tagname # "paragraph"
    THEN Ret(Raise(ctx, "AssertionError", "is_para"), <<>>)
    ELSE IF block.kids = <<>>
    THEN Ret(Raise(ctx, "IndexError", "block[0]"), <<>>)
    ELSE Ret(convert_versionwarning_entry(ctx, block), <<>>)

convert_comment_versionwarning_entry(ctx, astxt) ==
    LET idx == Find(astxt, <<":">>)
        tagname == SubSeq(astxt, 1, idx - 1)
        toks == SplitOn1(From(astxt, idx + 1), "\n")
        then_ver(ver) ==
            LET out == [Element("PARA") EXCEPT
                           !.title = Some(VersionTitle(VersionLabel(tagname), ver.out)),
                           !.text = IF Len(toks) = 2 THEN Some(toks[2]) ELSE None]
            IN IF ~(idx > 1) THEN Raise(ctx, "AssertionError", "idx > 0")
               ELSE IF tagname \notin {<<"v","e","r","s","i","o","n","a","d","d","e","d">>, <<"v","e","r","s","i","o","n","c","h","a","n","g","e","d">>}
               THEN Raise(ctx, "AssertionError", "comment")
               ELSE IF Failed(ver.ctx) THEN ver.ctx
               ELSE StoreAppend(ver.ctx,
                                IF tagname = <<"v","e","r","s","i","o","n","a","d","d","e","d">> THEN "versionadded"
                                ELSE "versionchanged",
                                out)
    IN then_ver(convert_version_number(ctx, Strip(toks[1])))

convert_comment_versionwarning(ctx, block) ==
    IF ~ctx.store.set
    THEN Ret(Raise(ctx, "TypeError", "store_versions is None"), <<>>)
    ELSE IF ctx.store.DONE
    THEN Ret(Raise(ctx, "ValueError", "Unexpected block"), <<>>)
    ELSE IF Len(block.kids) # 1
    THEN Ret(Raise(ctx, "AssertionError", "len(block) == 1"), <<>>)
    ELSE LET then_r(r) ==
                 IF Failed(r.ctx) THEN Ret(r.ctx, <<>>)
                 ELSE Ret(convert_comment_versionwarning_entry(r.ctx, r.out), <<>>)
         IN then_r(astext(ctx, block.kids[1]))

\* ------------------------------------------------------------- field body

convert_field_body(ctx, fbody) ==
    IF fbody.tagname # "field_body"
    THEN Ret(Raise(ctx, "AssertionError", "field_body"), <<>>)
    ELSE IF \E i \in 1..Len(fbody.kids) : fbody.kids[i].tagname # "paragraph"
    THEN Ret(Raise(ctx, "ValueError", "Expected only paragragh"), <<>>)
    ELSE IF Len(fbody.kids) = 0 THEN Ret(ctx, <<Element("PARA")>>)
    ELSE IF Len(fbody.kids) = 1
    THEN LET then_p(p) ==
                 Ret(p.ctx, IF Failed(p.ctx) THEN <<>> ELSE <<p.out>>)
         IN then_p(convert_para(ctx, fbody.kids[1], FALSE))
    ELSE Ret(Raise(ctx, "ValueError", "Need to handle n blocks"), <<>>)

\* --------------------------------------------------------- block dispatch

\* the keys of para_converters
ConverterTags ==
    {"doctest_block", "block_quote", "enumerated_list", "definition_list",
     "definition", "bullet_list", "table", "note", "warning", "versionadded",
     "versionchanged", "comment", "field_body", "literal_block"}

\* para_converters[para.tagname](para)
para_converters(ctx, para) ==
    CASE para.tagname = "doctest_block" -> convert_doctest_block(ctx, para)
      [] para.tagname = "block_quote" -> convert_block_quote(ctx, para)
      [] para.tagname = "enumerated_list" -> convert_enumerated_list(ctx, para)
      [] para.tagname = "definition_list" -> convert_definition_list(ctx, para)
      [] para.tagname = "definition" -> convert_definition(ctx, para)
      [] para.tagname = "bullet_list" -> convert_bullet_list(ctx, para)
      [] para.tagname = "table" -> convert_table(ctx, para)
      [] para.tagname = "note" -> convert_note(ctx, para)
      [] para.tagname = "warning" -> convert_warning(ctx, para)
      [] para.tagname \in {"versionadded", "versionchanged"} ->
             convert_versionwarning(ctx, para)
      [] para.tagname = "comment" -> convert_comment_versionwarning(ctx, para)
      [] para.tagname = "field_body" -> convert_field_body(ctx, para)
      [] para.tagname = "literal_block" -> convert_literal_block(ctx, para)

is_para(node) == node.tagname = "paragraph"

\* a node of a kind that has no converter is passed over
make_para_blocks_faulty(ctx, para) ==
    IF Failed(ctx) THEN Ret(ctx, <<>>)
    ELSE IF para.tagname = "system_message"
    THEN Ret(dbg(ctx, "- skipping message", "DBG"), <<>>)
    ELSE IF is_para(para)
    THEN LET then_p(p) ==
                 Ret(p.ctx, IF Failed(p.ctx) THEN <<>> ELSE <<p.out>>)
         IN then_p(convert_para(ctx, para, TRUE))
    ELSE IF para.tagname \notin ConverterTags
    THEN Ret(ctx, <<>>)
    ELSE LET then_r(r) ==
                 Ret(r.ctx, IF Failed(r.ctx) THEN <<>> ELSE r.out)
         IN then_r(para_converters(ctx, para))

make_para_blocks(ctx, para) ==
    IF Failed(ctx) THEN Ret(ctx, <<>>)
    ELSE IF para.tagname = "system_message"
    THEN Ret(dbg(ctx, "- skipping message", "DBG"), <<>>)
    ELSE IF is_para(para)
    THEN LET then_p(p) ==
                 Ret(p.ctx, IF Failed(p.ctx) THEN <<>> ELSE <<p.out>>)
         IN then_p(convert_para(ctx, para, TRUE))
    ELSE IF para.tagname \notin ConverterTags
    THEN Ret(Raise(ctx, "ValueError", "Unsupported paragraph type"), <<>>)
    ELSE LET then_r(r) ==
                 Ret(r.ctx, IF Failed(r.ctx) THEN <<>> ELSE r.out)
         IN then_r(para_converters(ctx, para))

\* ------------------------------------------------------ section extractors
\* An extractor returns the context it leaves, the section it found (a
\* sequence of no element for None, of one element otherwise) and the
\* remaining nodes.

Found(ctx, out, rest) == [ctx |-> ctx, out |-> out, rest |-> rest]

\* Every predicate handed to splitWhile lets a node through while its tag
\* is not one of a set of stop tags, so the predicate is given as that set.
\* The number of leading nodes let through: the index at which the first
\* loop of splitWhile stops.
PrefixLen(stop, xs) ==
    CHOOSE k \in 0..Len(xs) :
        /\ \A i \in 1..k : xs[i].tagname \notin stop
        /\ k = Len(xs) \/ xs[k + 1].tagname \in stop

splitWhile_faulty(stop, xs) ==
    LET k == PrefixLen(stop, xs)
    IN [ls |-> SubSeq(xs, 1, k), rs |-> SubSeq(xs, k + 2, Len(xs))]

splitWhile(stop, xs) ==
    LET k == PrefixLen(stop, xs)
    IN [ls |-> SubSeq(xs, 1, k), rs |-> SubSeq(xs, k + 1, Len(xs))]

Line(text) == [Element("LINE") EXCEPT !.text = Some(text)]

\* make_syntax_block(lines)
make_syntax_block(lines) ==
    [Element("SYNTAX") EXCEPT !.kids = [i \in 1..Len(lines) |-> Line(lines[i])]]

\* cleanup_sig(sig) for a signature that holds neither "<class 'sherpa."
\* nor "<function ": neither pattern matches and the text comes back as is.
\* The signatures of the model are of this form.
cleanup_sig(sig) == sig

find_syntax(ctx, name, sig, indoc) ==
    LET argline == IF sig.some THEN <<make_syntax_block(<<cleanup_sig(sig.v)>>)>>
                   ELSE <<>>
    IN IF indoc = <<>> THEN Found(Raise(ctx, "IndexError", "indoc[0]"), <<>>, indoc)
       ELSE IF ~is_para(indoc[1]) THEN Found(ctx, argline, indoc)
       ELSE IF ~StartsWith(Strip(NodeText(indoc[1])), name \o <<"(">>)
       THEN Found(ctx, argline, indoc)
       ELSE Found(Raise(ctx, "AssertionError", "Need to understand this"),
                  <<>>, indoc)

\* clean(v) of find_synopsis: for each of , . : " ' in turn, drop it from
\* the end and then from the start
RECURSIVE clean(_, _)
clean(v, cs) ==
    IF cs = <<>> THEN v
    ELSE LET a == IF EndsWith(v, <<cs[1]>>) THEN SubSeq(v, 1, Len(v) - 1) ELSE v
             b == IF StartsWith(a, <<cs[1]>>) THEN Tail(a) ELSE a
         IN clean(b, Tail(cs))

find_synopsis(ctx, indoc) ==
    IF indoc = <<>>
    THEN [ctx |-> Raise(ctx, "IndexError", "indoc[0]"), out |-> <<>>,
          keywords |-> {}, rest |-> indoc]
    ELSE IF indoc[1].tagname # "paragraph"
    THEN [ctx |-> ctx, out |-> <<>>, keywords |-> {}, rest |-> indoc]
    ELSE LET syn == Strip(NodeText(indoc[1]))
             keys == Split(Lower(syn))
         IN [ctx |-> ctx,
             out |-> <<[Element("SYNOPSIS") EXCEPT !.text = Some(syn)]>>,
             keywords |-> {clean(keys[i], <<",", ".", ":", "\"", "'">>) :
                              i \in 1..Len(keys)},
             rest |-> Tail(indoc)]

\* make_para_blocks on each node in turn, the elements appended to out
RECURSIVE append_para_blocks(_, _, _)
append_para_blocks(ctx, paras, out) ==
    IF Failed(ctx) \/ paras = <<>> THEN Ret(ctx, out)
    ELSE LET then_r(r) ==
                 append_para_blocks(r.ctx, Tail(paras),
                                    [out EXCEPT !.kids = @ \o r.out])
         IN then_r(make_para_blocks(ctx, paras[1]))

\* want(x) of find_desc holds of every tag but these
DescStops == {"rubric", "field_list", "container", "seealso"}

\* the Description is left out whenever no leading node qualifies, synonym
\* or not
find_desc_faulty(ctx, indoc, synonyms) ==
    LET s == splitWhile(DescStops, indoc)
        then_r(r) ==
            IF Len(s.ls) = 0 THEN Found(ctx, <<>>, indoc)
            ELSE IF Failed(r.ctx) THEN Found(r.ctx, <<>>, indoc)
            ELSE Found(r.ctx, <<r.out>>, s.rs)
    IN then_r(append_para_blocks(ctx, s.ls, Element("DESC")))

find_desc(ctx, indoc, synonyms) ==
    LET s == splitWhile(DescStops, indoc)
        start == IF synonyms.some
                 THEN AddChild(Element("DESC"),
                               [Element("PARA") EXCEPT !.text =
                                   Some(<<"T","h","e"," ","f","u","n","c","t","i","o","n"," ","i","s"," ","a","l","s","o"," ","c","a","l","l","e","d"," ">>
                                        \o synonyms.v[1] \o <<"(",")",".">>)])
                 ELSE Element("DESC")
        then_r(r) ==
            IF Len(s.ls) = 0 /\ ~synonyms.some THEN Found(ctx, <<>>, indoc)
            ELSE IF synonyms.some /\ Len(synonyms.v) # 1
            THEN Found(Raise(ctx, "AssertionError", "synonyms"), <<>>, indoc)
            ELSE IF Failed(r.ctx) THEN Found(r.ctx, <<>>, indoc)
            ELSE Found(IF Len(r.out.kids) = 0
                       THEN dbg(r.ctx, "no text in DESC block", "NOTE") ELSE r.ctx,
                       <<r.out>>, s.rs)
    IN then_r(append_para_blocks(ctx, s.ls, start))

\* the field_name text and the field_body of one field
FieldName(field) ==
    LET ix == {i \in 1..Len(field.kids) : field.kids[i].tagname = "field_name"}
    IN IF ix = {} THEN None
       ELSE Some(NodeText(field.kids[CHOOSE i \in ix : \A j \in ix : j <= i]))

FieldBody(field) ==
    LET ix == {i \in 1..Len(field.kids) : field.kids[i].tagname = "field_body"}
    IN IF ix = {} THEN <<>>
       ELSE <<field.kids[CHOOSE i \in ix : \A j \in ix : j <= i]>>

\* one entry of the params dictionary: its name, the keys set among param,
\* type and ivar, and their bodies
Param(pname) ==
    [name |-> pname, keys |-> {}, param |-> <<>>, type |-> <<>>, ivar |-> <<>>]

\* store[t0] = body
SetKey(par, t0, body) ==
    [[par EXCEPT !.keys = @ \cup {t0}] EXCEPT
        !.param = IF t0 = "param" THEN body ELSE @,
        !.type = IF t0 = "type" THEN body ELSE @,
        !.ivar = IF t0 = "ivar" THEN body ELSE @]

\* the key of a field name's first word
FieldKey(t0) ==
    CASE t0 = <<"p","a","r","a","m">> -> "param"
      [] t0 = <<"i","v","a","r">> -> "ivar"
      [] t0 = <<"t","y","p","e">> -> "type"
      [] t0 = <<"r","t","y","p","e">> -> "rtype"
      [] t0 = <<"r","a","i","s","e","s">> -> "raises"
      [] t0 = <<"r","e","t","u","r","n","s">> -> "returns"
      [] OTHER -> ""

\* params[pname] = ..., keeping the order of first insertion
PutParam(params, pname, t0, body) ==
    IF \E i \in 1..Len(params) : params[i].name = pname
    THEN [i \in 1..Len(params) |->
             IF params[i].name = pname THEN SetKey(params[i], t0, body)
             ELSE params[i]]
    ELSE Append(params, SetKey(Param(pname), t0, body))

\* the loop of find_fieldlist over the fields; acc holds params, returns
\* and raises
RECURSIVE find_fieldlist_loop(_, _, _)
find_fieldlist_loop(ctx, fields, acc) ==
    IF Failed(ctx) \/ fields = <<>> THEN Ret(ctx, acc)
    ELSE LET field == fields[1]
             name == FieldName(field)
             body == FieldBody(field)
             toks == SplitOn1(name.v, " ")
             t0 == FieldKey(toks[1])
             prev == acc.params[Len(acc.params)]
         IN IF field.tagname # "field"
            THEN Ret(Raise(ctx, "AssertionError", "field"), acc)
            ELSE IF \E i \in 1..Len(field.kids) :
                       field.kids[i].tagname \notin {"field_name", "field_body"}
            THEN Ret(Raise(ctx, "ValueError", "Unexpected field member"), acc)
            ELSE IF ~name.some
            THEN Ret(Raise(ctx, "AttributeError", "name.split"), acc)
            ELSE IF t0 = "" THEN Ret(Raise(ctx, "AssertionError", "field name"), acc)
            ELSE IF t0 = "raises"
            THEN find_fieldlist_loop(ctx, Tail(fields),
                     [acc EXCEPT !.raises = Append(@, body)])
            ELSE IF t0 \in {"returns", "rtype"}
            THEN IF Len(toks) # 1
                 THEN Ret(Raise(ctx, "AssertionError", "ntoks == 1"), acc)
                 ELSE find_fieldlist_loop(ctx, Tail(fields),
                          [acc EXCEPT !.returns =
                              Append(@, [t0 |-> t0, body |-> body])])
            ELSE IF Len(toks) # 2
            THEN Ret(Raise(ctx, "AssertionError", "ntoks == 2"), acc)
            ELSE IF t0 = "ivar" /\ Len(acc.params) > 0
                    /\ EndsWith(Strip(prev.name), <<",">>)
            THEN IF "ivar" \notin prev.keys
                 THEN Ret(Raise(ctx, "KeyError", "ivar"), acc)
                 ELSE IF prev.ivar = <<>>
                 THEN Ret(Raise(ctx, "TypeError", "len(None)"), acc)
                 ELSE IF Len(prev.ivar[1].kids) = 0
                 THEN find_fieldlist_loop(ctx, Tail(fields),
                          [acc EXCEPT !.params[Len(acc.params)] =
                              [prev EXCEPT
                                  !.name = prev.name \o <<" ">> \o toks[2],
                                  !.ivar = body]])
                 ELSE find_fieldlist_loop(ctx, Tail(fields),
                          [acc EXCEPT !.params =
                              PutParam(@, toks[2], t0, body)])
            ELSE find_fieldlist_loop(ctx, Tail(fields),
                     [acc EXCEPT !.params = PutParam(@, toks[2], t0, body)])

find_fieldlist(ctx, indoc) ==
    IF Len(indoc) = 0 THEN Found(ctx, <<>>, indoc)
    ELSE IF indoc[1].tagname # "field_list" THEN Found(ctx, <<>>, indoc)
    ELSE LET then_r(r) ==
                 IF Failed(r.ctx) THEN Found(r.ctx, <<>>, indoc)
                 ELSE Found(r.ctx, <<r.out>>, Tail(indoc))
         IN then_r(find_fieldlist_loop(ctx, indoc[1].kids,
                       [params |-> <<>>, returns |-> <<>>, raises |-> <<>>]))

\* the names of a See Also block, or the assertion the block fails
SeealsoShapeOk(node) ==
    /\ Len(node.kids) = 1
    /\ IF node.kids[1].tagname = "definition_list"
       THEN \A i \in 1..Len(node.kids[1].kids) :
               LET n == node.kids[1].kids[i]
               IN /\ n.tagname = "definition_list_item"
                  /\ Len(n.kids) >= 1
                  /\ n.kids[1].tagname = "term"
                  /\ Len(n.kids[1].kids) >= 1
                  /\ n.kids[1].kids[1].tagname \in {"literal", "#text"}
       ELSE \A i \in 1..Len(node.kids[1].kids) :
               node.kids[1].kids[i].tagname \in {"literal", "#text"}

SeealsoNames(node) ==
    LET first == node.kids[1]
        raw == IF first.tagname = "definition_list"
               THEN [i \in 1..Len(first.kids) |->
                        NodeText(first.kids[i].kids[1].kids[1])]
               ELSE [i \in 1..Len(first.kids) |-> NodeText(first.kids[i])]
    IN SelectSeq(raw, LAMBDA n : Strip(n) # <<",">>)

\* the clean-up loop of find_seealso: module paths are stripped, a name
\* with any other dot ends the process, duplicates are dropped
RECURSIVE seealso_cleanup(_, _, _)
seealso_cleanup(ctx, names, out) ==
    IF Failed(ctx) \/ names = <<>> THEN Ret(ctx, out)
    ELSE LET n == names[1]
             toks == SplitOn(n, ".")
             m == IF StartsWith(n, <<"s","h","e","r","p","a",".">>) THEN toks[Len(toks)] ELSE n
         IN IF ~StartsWith(n, <<"s","h","e","r","p","a",".">>) /\ Find(n, <<".">>) # 0
            THEN Ret(Raise([ctx EXCEPT !.log =
                               Append(@, [info |-> "ERROR",
                                          msg |-> "invalid seealso"])],
                           "SystemExit", "1"), out)
            ELSE seealso_cleanup(ctx, Tail(names),
                     IF \E i \in 1..Len(out) : out[i] = m THEN out
                     ELSE Append(out, m))

find_seealso(ctx, indoc) ==
    IF Len(indoc) = 0 THEN Found(ctx, None, indoc)
    ELSE IF indoc[1].tagname # "seealso" THEN Found(ctx, None, indoc)
    ELSE IF indoc[1].kids = <<>>
    THEN Found(Raise(ctx, "IndexError", "node[0]"), None, indoc)
    ELSE IF indoc[1].kids[1].tagname \notin {"definition_list", "paragraph"}
    THEN Found(Raise(ctx, "ValueError", "Unexpected see also contents"),
               None, indoc)
    ELSE IF ~SeealsoShapeOk(indoc[1])
    THEN Found(Raise(ctx, "AssertionError", "see also"), None, indoc)
    ELSE LET names == SeealsoNames(indoc[1])
             then_r(r) ==
                 IF Failed(r.ctx) THEN Found(r.ctx, None, indoc)
                 ELSE Found(IF Len(names) # Len(r.out)
                            THEN dbg(r.ctx, "- see also contains duplicates", "DBG")
                            ELSE r.ctx,
                            Some(r.out), Tail(indoc))
         IN then_r(seealso_cleanup(ctx, names, <<>>))

\* version(v) of find_notes
XspecOnly(v) ==
    <<"T","h","i","s"," ","m","o","d","e","l"," ","i","s"," ","o","n","l","y"," ","a","v","a","i","l","a","b","l","e"," ","w","h","e","n"," ","u","s","e","d"," ","w","i","t","h"," ","X","S","P","E","C"," ">> \o v \o <<" ","o","r"," ","l","a","t","e","r",".">>

v12140 == <<"T","h","i","s"," ","m","o","d","e","l"," ","r","e","q","u","i","r","e","s"," ","X","S","P","E","C"," ","1","2",".","1","4",".","0"," ","o","r"," ","l","a","t","e","r",".">>

v12150 == <<"T","h","i","s"," ","m","o","d","e","l"," ","r","e","q","u","i","r","e","s"," ","X","S","P","E","C"," ","1","2",".","1","5",".","0"," ","o","r"," ","l","a","t","e","r",".">>

\* the texts wanted(n) filters out of a Notes section
OldXspecNotes ==
    {XspecOnly(<<"1","2",".","9",".","1">>), XspecOnly(<<"1","2",".","1","0",".","0">>), XspecOnly(<<"1","2",".","1","0",".","1">>),
     XspecOnly(<<"1","2",".","1","1",".","0">>), XspecOnly(<<"1","2",".","1","2",".","0">>), XspecOnly(<<"1","2",".","1","3",".","0">>),
     v12140}

\* the texts not_wanted(n) finds
UnsupportedXspecNotes == {XspecOnly(<<"1","2",".","1","2",".","1">>), v12150}

\* the loop of find_notes over the nodes kept
RECURSIVE find_notes_loop(_, _, _)
find_notes_loop(ctx, paras, out) ==
    IF Failed(ctx) \/ paras = <<>> THEN Ret(ctx, out)
    ELSE IF Contains(NodeText(paras[1]), v12140)
    THEN Ret(Raise(ctx, "NotImplementedError", "this has got too complex"), out)
    ELSE LET then_r(r) ==
                 find_notes_loop(r.ctx, Tail(paras), [out EXCEPT !.kids = @ \o r.out])
         IN then_r(make_para_blocks(ctx, paras[1]))

find_notes(ctx, name, indoc) ==
    IF Len(indoc) = 0 THEN Found(ctx, <<>>, indoc)
    ELSE IF indoc[1].tagname # "rubric" THEN Found(ctx, <<>>, indoc)
    ELSE IF Strip(NodeText(indoc[1])) # <<"N","o","t","e","s">> THEN Found(ctx, <<>>, indoc)
    ELSE LET s == splitWhile({"rubric"}, Tail(indoc))
             lnodes == SelectSeq(s.ls, LAMBDA n : NodeText(n) \notin OldXspecNotes)
             unodes == SelectSeq(lnodes,
                                 LAMBDA n : NodeText(n) \in UnsupportedXspecNotes)
             then_r(r) ==
                 IF Len(lnodes) = 0 THEN Found(ctx, <<>>, s.rs)
                 ELSE IF Len(unodes) > 0
                 THEN Found(Raise(ctx, "RuntimeError", "unsupported in CIAO"),
                            <<>>, indoc)
                 ELSE IF Failed(r.ctx) THEN Found(r.ctx, <<>>, indoc)
                 ELSE IF ~(Len(r.out.kids) > 0)
                 THEN Found(Raise(r.ctx, "AssertionError", "len(out) > 0"), <<>>, indoc)
                 ELSE Found(r.ctx, <<r.out>>, s.rs)
         IN then_r(find_notes_loop(ctx, lnodes,
                       [Element("ADESC") EXCEPT !.title = Some(<<"N","o","t","e","s">>)]))

find_warning(ctx, indoc) ==
    IF Len(indoc) = 0 THEN Found(ctx, <<>>, indoc)
    ELSE IF indoc[1].tagname # "warning" THEN Found(ctx, <<>>, indoc)
    ELSE IF Len(indoc[1].kids) # 1
    THEN Found(Raise(ctx, "AssertionError", "len(node.children) == 1"),
               <<>>, indoc)
    ELSE LET then_r(r) ==
                 IF Failed(r.ctx) THEN Found(r.ctx, <<>>, indoc)
                 ELSE Found(r.ctx,
                            <<AddChild([Element("ADESC") EXCEPT
                                           !.title = Some(<<"W","a","r","n","i","n","g">>)],
                                       [Element("PARA") EXCEPT !.text = Some(r.out)])>>,
                            Tail(indoc))
         IN then_r(astext(ctx, indoc[1].kids[1]))

\* "[<label>]" and "[<label>] <text>"
Labelled(l, r) == Bracketed(l) \o <<" ">> \o r

Href(text, link) == [Element("HREF") EXCEPT !.text = Some(text), !.link = link]

RefuriIsHttp(node) == node.refuri.some /\ StartsWith(node.refuri.v, <<"h","t","t","p">>)

\* the footnote branch of find_references: one LINE
footnote_line(ctx, footnote) ==
    LET label == footnote.kids[1]
        para == footnote.kids[2]
        l == NodeText(label)
        r == NodeText(para)
        first == para.kids[1]
        dump == Join([i \in 1..(Len(para.kids) - 1) |->
                         NodeText(para.kids[i + 1])], <<>>)
    IN IF Len(footnote.kids) # 2 \/ label.tagname # "label"
          \/ para.tagname # "paragraph"
       THEN Ret(Raise(ctx, "AssertionError", "footnote"), <<>>)
       ELSE IF Len(para.kids) = 2
       THEN IF ~StartsWith(NodeText(para.kids[2]), <<"h","t","t","p">>)
            THEN Ret(Raise(ctx, "AssertionError", "footnote uri"), <<>>)
            ELSE Ret(ctx, <<AddChild(Element("LINE"),
                                     Href(Labelled(l, NodeText(first)),
                                          Some(NodeText(para.kids[2]))))>>)
       ELSE IF Len(para.kids) = 1
       THEN IF StartsWith(r, <<"h","t","t","p">>)
            THEN Ret(ctx, <<AddChild(Element("LINE"),
                                     Href(Bracketed(l), Some(r)))>>)
            ELSE Ret(ctx, <<Line(Labelled(l, r))>>)
       ELSE IF Len(para.kids) = 0
       THEN Ret(Raise(ctx, "IndexError", "footnote[1][0]"), <<>>)
       ELSE IF first.tagname # "reference"
       THEN Ret(Raise(ctx, "AssertionError", "footnote structure"), <<>>)
       ELSE IF ~first.refuri.some
       THEN Ret(Raise(ctx, "AttributeError", "refuri"), <<>>)
       ELSE IF ~RefuriIsHttp(first)
       THEN Ret(Raise(ctx, "AssertionError", "footnote structure"), <<>>)
       ELSE Ret(ctx, <<AddChild(Element("LINE"),
                    [Href(IF NodeText(first) = first.refuri.v
                          THEN Bracketed(l)
                          ELSE Labelled(l, NodeText(first)),
                          first.refuri)
                     EXCEPT !.tail = Some(dump)])>>)

\* the paragraph branch: a reference followed by its target; neither
\* process_reference nor process_target is called
reference_paragraph_line(ctx, footnote) ==
    IF Len(footnote.kids) # 2
    THEN Ret(Raise(ctx, "AssertionError", "len(footnote) == 2"), <<>>)
    ELSE IF footnote.kids[1].tagname # "reference"
    THEN Ret(Raise(ctx, "AssertionError", "REFERENCE"), <<>>)
    ELSE IF footnote.kids[2].tagname # "target"
    THEN Ret(Raise(ctx, "AssertionError", "TARGET"), <<>>)
    ELSE IF ~footnote.kids[1].refuri.some
    THEN Ret(Raise(ctx, "AttributeError", "refuri"), <<>>)
    ELSE IF ~RefuriIsHttp(footnote.kids[1])
    THEN Ret(Raise(ctx, "AssertionError", "URI"), <<>>)
    ELSE Ret(ctx, <<AddChild(Element("LINE"),
                             Href(NodeText(footnote.kids[1]),
                                  footnote.kids[1].refuri))>>)

citation_line(ctx, footnote) ==
    IF Len(footnote.kids) # 2 \/ footnote.kids[1].tagname # "label"
       \/ footnote.kids[2].tagname # "paragraph"
       \/ ~StartsWith(NodeText(footnote.kids[2]), <<"h","t","t","p">>)
    THEN Ret(Raise(ctx, "AssertionError", "citation"), <<>>)
    ELSE Ret(ctx, <<AddChild(Element("LINE"),
                             Href(NodeText(footnote.kids[1]),
                                  Some(NodeText(footnote.kids[2]))))>>)

\* the enumerated_list branch: one LINE per list item
RECURSIVE reference_list_lines(_, _, _)
reference_list_lines(ctx, items, out) ==
    IF Failed(ctx) \/ items = <<>> THEN Ret(ctx, out)
    ELSE LET subelem == items[1]
             para == subelem.kids[1]
         IN IF subelem.tagname # "list_item"
            THEN Ret(Raise(ctx, "AssertionError", "list_item"), out)
            ELSE IF subelem.kids = <<>>
            THEN Ret(Raise(ctx, "IndexError", "subelem[0]"), out)
            ELSE IF para.tagname # "paragraph"
            THEN Ret(Raise(ctx, "AssertionError", "paragraph"), out)
            ELSE IF para.kids = <<>>
            THEN Ret(Raise(ctx, "IndexError", "para[0]"), out)
            ELSE IF para.kids[1].tagname = "reference"
            THEN IF ~para.kids[1].refuri.some
                 THEN Ret(Raise(ctx, "AttributeError", "refuri"), out)
                 ELSE IF ~RefuriIsHttp(para.kids[1])
                 THEN Ret(Raise(ctx, "AssertionError", "reference"), out)
                 ELSE reference_list_lines(ctx, Tail(items),
                          Append(out, AddChild(Element("LINE"),
                                     Href(NodeText(para.kids[1]),
                                          para.kids[1].refuri))))
            ELSE IF Len(para.kids) # 1
            THEN Ret(Raise(ctx, "AssertionError", "len(para) == 1"), out)
            ELSE reference_list_lines(ctx, Tail(items),
                     Append(out, Line(NodeText(para))))

\* the loop of find_references over the nodes of the section
RECURSIVE find_references_loop(_, _, _)
find_references_loop(ctx, lnodes, lines) ==
    IF Failed(ctx) \/ lnodes = <<>> THEN Ret(ctx, lines)
    ELSE LET footnote == lnodes[1]
             then_r(r) ==
                 find_references_loop(r.ctx, Tail(lnodes), lines \o r.out)
         IN then_r(CASE footnote.tagname = "footnote" -> footnote_line(ctx, footnote)
                     [] footnote.tagname = "paragraph" ->
                            reference_paragraph_line(ctx, footnote)
                     [] footnote.tagname = "citation" -> citation_line(ctx, footnote)
                     [] footnote.tagname = "enumerated_list" ->
                            reference_list_lines(ctx, footnote.kids, <<>>)
                     [] OTHER -> Ret(Raise(ctx, "AssertionError", "references"), <<>>))

find_references(ctx, indoc) ==
    IF Len(indoc) = 0 THEN Found(ctx, <<>>, indoc)
    ELSE IF indoc[1].tagname # "rubric" THEN Found(ctx, <<>>, indoc)
    ELSE IF Strip(NodeText(indoc[1])) # <<"R","e","f","e","r","e","n","c","e","s">>
    THEN Found(ctx, <<>>, indoc)
    ELSE LET s == splitWhile({"rubric"}, Tail(indoc))
             then_r(r) ==
                 IF Failed(r.ctx) THEN Found(r.ctx, <<>>, indoc)
                 ELSE Found(r.ctx,
                            <<AddChild([Element("ADESC") EXCEPT
                                           !.title = Some(<<"R","e","f","e","r","e","n","c","e","s">>)],
                                       AddChild(Element("PARA"),
                                                [Element("SYNTAX") EXCEPT
                                                    !.kids = r.out]))>>,
                            s.rs)
         IN then_r(find_references_loop(ctx, s.ls, <<>>))

\* ------------------------------------------------------ the Examples section

IsUpperChar(c) == \E i \in 1..26 : UpperLetters[i] = c

IsAlnum(c) == IsUpperChar(c) \/ IsLowerChar(c) \/ IsDigit(c)

\* the length of the run of [a-zA-Z0-9] starting at s[i]
RECURSIVE AlnumRun(_, _)
AlnumRun(s, i) ==
    IF i > Len(s) \/ ~IsAlnum(s[i]) THEN 0 ELSE 1 + AlnumRun(s, i + 1)

Max(S) == CHOOSE x \in S : \A y \in S : y <= x

\* sherpa.models\.[^\(]+\.([A-Z][a-zA-Z0-9]+) matched at s[i]: the
\* positions of the dot in front of the class name
ModelDots(s, i) ==
    {j \in (i + 15)..Len(s) :
        /\ SubSeq(s, i, i + 5) = <<"s","h","e","r","p","a">>
        /\ SubSeq(s, i + 7, i + 13) = <<"m","o","d","e","l","s",".">>
        /\ \A k \in (i + 14)..(j - 1) : s[k] # "("
        /\ s[j] = "."
        /\ j + 2 <= Len(s)
        /\ IsUpperChar(s[j + 1])
        /\ IsAlnum(s[j + 2])}

\* SHERPA_MODEL_SETTING_RE: the ends of group 1 that let the line match
ModelSettingEnds(line) ==
    {i \in 5..(Len(line) - 3) :
        /\ StartsWith(line, <<">",">",">"," ">>)
        /\ SubSeq(line, i + 1, i + 3) = <<" ","="," ">>
        /\ ModelDots(line, i + 4) # {}}

\* cleanup_sherpa_model_setting, one line
convert_model_setting(line) ==
    IF ModelSettingEnds(line) = {} THEN line
    ELSE LET i == Max(ModelSettingEnds(line))
             j == Max(ModelDots(line, i + 4))
             m2 == SubSeq(line, j + 1, j + AlnumRun(line, j + 1))
         IN <<">",">",">"," ">> \o Lower(m2) \o <<".">> \o SubSeq(line, 5, i)

\* SHERPA_XSMODEL_SETTING_RE
XSModelSettingEnds(line) ==
    {i \in 5..(Len(line) - 6) :
        /\ StartsWith(line, <<">",">",">"," ">>)
        /\ SubSeq(line, i + 1, i + 5) = <<" ","="," ","X","S">>
        /\ i + 6 <= Len(line)
        /\ IsAlnum(line[i + 6])}

\* cleanup_sherpa_xsmodel_setting, one line
convert_xsmodel_setting(line) ==
    IF XSModelSettingEnds(line) = {} THEN line
    ELSE LET i == Max(XSModelSettingEnds(line))
             m2 == SubSeq(line, i + 6, i + 5 + AlnumRun(line, i + 6))
         IN <<">",">",">"," ","x","s">> \o Lower(m2) \o <<".">> \o SubSeq(line, 5, i)

\* SHERPA_MODELS_RE: the dots in front of a class name that leaves at
\* least one character for the last group
ModelsDots(line, i) ==
    {j \in ModelDots(line, i) :
        j + 2 < Len(line)}

ModelsEnds(line) ==
    {i \in 1..Len(line) : ModelsDots(line, i + 1) # {}}

\* cleanup_sherpa_models, one line
RECURSIVE convert_models(_)
convert_models(line) ==
    IF ModelsEnds(line) = {} THEN line
    ELSE LET i == Max(ModelsEnds(line))
             j == Max(ModelsDots(line, i + 1))
             run == AlnumRun(line, j + 1)
             e == IF j + run < Len(line) THEN j + run ELSE j + run - 1
         IN convert_models(SubSeq(line, 1, i)
                           \o Lower(SubSeq(line, j + 1, e))
                           \o From(line, e + 1))

EachLine(txt, which) ==
    LET lines == SplitOn(txt, "\n")
    IN Join([i \in 1..Len(lines) |->
                CASE which = 1 -> convert_model_setting(lines[i])
                  [] which = 2 -> convert_xsmodel_setting(lines[i])
                  [] OTHER -> convert_models(lines[i])],
            <<"\n">>)

convert_example_text(txt) == EachLine(EachLine(EachLine(txt, 1), 2), 3)

\* the conversion of the text of one block of an example
example_block(ctx, p) ==
    IF p.tag \in {"PARA", "VERBATIM"}
    THEN IF ~p.text.some
         THEN Ret(Raise(ctx, "AttributeError", "txt.split"), p)
         ELSE Ret(ctx, [p EXCEPT !.text = Some(convert_example_text(@.v))])
    ELSE IF p.tag = "LIST"
    THEN IF \E i \in 1..Len(p.kids) : ~p.kids[i].text.some
         THEN Ret(Raise(ctx, "AttributeError", "txt.split"), p)
         ELSE Ret(ctx, [p EXCEPT !.kids =
                  [i \in 1..Len(p.kids) |->
                      [p.kids[i] EXCEPT
                          !.text = Some(convert_example_text(@.v))]]])
    ELSE Ret(Raise(ctx, "RuntimeError", "Did not expect tag in example text"), p)

RECURSIVE example_blocks(_, _, _)
example_blocks(ctx, ps, out) ==
    IF Failed(ctx) \/ ps = <<>> THEN Ret(ctx, out)
    ELSE LET then_r(r) ==
                 example_blocks(r.ctx, Tail(ps), Append(out, r.out))
         IN then_r(example_block(ctx, ps[1]))

ExampleTags ==
    {"paragraph", "doctest_block", "block_quote", "literal_block", "bullet_list"}

\* a paragraph after a code-like node starts a new example whatever its
\* first letter
RECURSIVE find_examples_loop_faulty(_, _, _, _)
find_examples_loop_faulty(ctx, lnodes, out, open) ==
    IF Failed(ctx) \/ lnodes = <<>> THEN Ret(ctx, out)
    ELSE LET para == lnodes[1]
             name == para.tagname
             out1 == IF open THEN out
                     ELSE AddChild(out, AddChild(Element("QEXAMPLE"),
                                                 Element("DESC")))
             then_r(r) ==
                 LET then_c(c) ==
                         LET n == Len(out1.kids)
                         IN IF name \notin ExampleTags
                            THEN Ret(Raise(ctx, "AssertionError", "example"), out)
                            ELSE find_examples_loop_faulty(c.ctx, Tail(lnodes),
                                     [out1 EXCEPT !.kids[n].kids[1].kids = @ \o c.out],
                                     name \in {"paragraph", "bullet_list"})
                 IN then_c(example_blocks(r.ctx, r.out, <<>>))
         IN then_r(make_para_blocks(ctx, para))

\* the loop of find_examples; open says that desc is not None, and desc
\* is then the DESC of the last QEXAMPLE of out
RECURSIVE find_examples_loop(_, _, _, _)
find_examples_loop(ctx, lnodes, out, open) ==
    IF Failed(ctx) \/ lnodes = <<>> THEN Ret(ctx, out)
    ELSE LET para == lnodes[1]
             name == para.tagname
             txt == NodeText(para)
             joins == name = "paragraph" /\ Len(out.kids) >= 1
                      /\ IsLowerChar(txt[1])
             out1 == IF open \/ joins THEN out
                     ELSE AddChild(out, AddChild(Element("QEXAMPLE"),
                                                 Element("DESC")))
             then_r(r) ==
                 LET then_c(c) ==
                         LET n == Len(out1.kids)
                         IN IF name \notin ExampleTags
                            THEN Ret(Raise(ctx, "AssertionError", "example"), out)
                            ELSE IF ~open /\ name = "paragraph" /\ Len(out.kids) >= 1
                                    /\ txt = <<>>
                            THEN Ret(Raise(ctx, "IndexError", "para.astext()[0]"), out)
                            ELSE find_examples_loop(c.ctx, Tail(lnodes),
                                     [out1 EXCEPT !.kids[n].kids[1].kids = @ \o c.out],
                                     name \in {"paragraph", "bullet_list"})
                 IN then_c(example_blocks(r.ctx, r.out, <<>>))
         IN then_r(make_para_blocks(ctx, para))

find_examples(ctx, indoc) ==
    IF Len(indoc) = 0 THEN Found(ctx, <<>>, indoc)
    ELSE IF indoc[1].tagname # "rubric" THEN Found(ctx, <<>>, indoc)
    ELSE LET txt == Strip(NodeText(indoc[1]))
             ctx1 == IF txt = <<"E","x","a","m","p","l","e">>
                     THEN dbg(ctx, " - has an Example, not Examples, block", "DBG")
                     ELSE ctx
             s == splitWhile({"rubric"}, Tail(indoc))
             then_r(r) ==
                 IF txt \notin {<<"E","x","a","m","p","l","e","s">>, <<"E","x","a","m","p","l","e">>}
                 THEN Found(ctx, <<>>, indoc)
                 ELSE IF Failed(r.ctx) THEN Found(r.ctx, <<>>, indoc)
                 ELSE Found(r.ctx, <<r.out>>, s.rs)
         IN then_r(find_examples_loop(ctx1, s.ls, Element("QEXAMPLELIST"), FALSE))

\* ------------------------------------------------------------ parameters

\* convert_field_body applied to a stored body, which is None when the
\* field had no field_body
stored_field_body(ctx, body) ==
    IF body = <<>> THEN Ret(Raise(ctx, "AttributeError", "tagname"), <<>>)
    ELSE convert_field_body(ctx, body[1])

DataOf(text) == [Element("DATA") EXCEPT !.text = text]

\* one ROW of the parameter table
param_row(ctx, par, has_type) ==
    LET then_t(t) ==
            LET src == IF "param" \in par.keys THEN par.param ELSE par.ivar
                then_d(d) ==
                    IF has_type /\ Failed(t.ctx) THEN Ret(t.ctx, Row(<<>>))
                    ELSE IF Failed(d.ctx) THEN Ret(d.ctx, Row(<<>>))
                    ELSE Ret(d.ctx,
                             Row(<<DataOf(Some(par.name))>>
                                 \o (IF has_type THEN <<DataOf(t.out[1].text)>> ELSE <<>>)
                                 \o <<DataOf(d.out[1].text)>>))
            IN then_d(IF "param" \in par.keys \/ "ivar" \in par.keys
                      THEN stored_field_body(IF has_type THEN t.ctx ELSE ctx, src)
                      ELSE Ret(IF has_type THEN t.ctx ELSE ctx,
                               <<[Element("PARA") EXCEPT !.text = Some(<<>>)]>>))
    IN then_t(IF "type" \in par.keys THEN stored_field_body(ctx, par.type)
              ELSE Ret(ctx, <<[Element("PARA") EXCEPT !.text = Some(<<>>)]>>))

\* no row is written for a parameter
param_rows_faulty(ctx, parinfo, has_type, tbl) == Ret(ctx, tbl)

RECURSIVE param_rows(_, _, _, _)
param_rows(ctx, parinfo, has_type, tbl) ==
    IF Failed(ctx) \/ parinfo = <<>> THEN Ret(ctx, tbl)
    ELSE LET then_r(r) ==
                 param_rows(r.ctx, Tail(parinfo), has_type, AddChild(tbl, r.out))
         IN then_r(param_row(ctx, parinfo[1], has_type))

\* the return_value of extract_params: no element for None
return_value(ctx, retinfo) ==
    LET rvals == SelectSeq(retinfo, LAMBDA r : r.t0 = "returns")
        body == rvals[1].body
        then_a(a) ==
            IF ~(Len(rvals) < 2) THEN Ret(Raise(ctx, "AssertionError", "retinfo"), <<>>)
            ELSE IF Len(rvals) = 0 THEN Ret(ctx, <<>>)
            ELSE IF body = <<>> THEN Ret(Raise(ctx, "AttributeError", "tagname"), <<>>)
            ELSE IF body[1].tagname # "field_body"
            THEN Ret(Raise(ctx, "AssertionError", "field_body"), <<>>)
            ELSE IF body[1].kids = <<>>
            THEN Ret(Raise(ctx, "IndexError", "rvals[0][0]"), <<>>)
            ELSE IF Failed(a.ctx) THEN Ret(a.ctx, <<>>)
            ELSE IF Len(Split(Strip(a.out))) = 1 THEN Ret(a.ctx, <<>>)
            ELSE convert_field_body(a.ctx, body[1])
    IN then_a(astext(ctx, body[1].kids[1]))

extract_params(ctx, fieldinfo) ==
    IF fieldinfo = <<>> THEN Ret(ctx, <<>>)
    ELSE LET parinfo == fieldinfo[1].params
             retinfo == fieldinfo[1].returns
             is_attrs == \E i \in 1..Len(parinfo) : "ivar" \in parinfo[i].keys
             nparams == Len(parinfo)
             funcname == IF is_attrs THEN <<"o","b","j","e","c","t">> ELSE <<"f","u","n","c","t","i","o","n">>
             value == IF is_attrs THEN <<"a","t","t","r","i","b","u","t","e">> ELSE <<"p","a","r","a","m","e","t","e","r">>
             VALUES == IF is_attrs THEN <<"A","T","T","R","I","B","U","T","E","S">> ELSE <<"P","A","R","A","M","E","T","E","R","S">>
             Value == IF is_attrs THEN <<"A","t","t","r","i","b","u","t","e">> ELSE <<"P","a","r","a","m","e","t","e","r">>
             then_rv(rv) ==
                 LET has_type == \E i \in 1..Len(parinfo) : "type" \in parinfo[i].keys
                     intro == IF nparams = 0
                              THEN <<"T","h","i","s"," ">> \o funcname \o <<" ","h","a","s"," ","n","o"," ">> \o value \o <<"s">>
                              ELSE IF nparams = 1
                              THEN <<"T","h","e"," ">> \o value \o <<" ","f","o","r"," ","t","h","i","s"," ">> \o funcname \o <<" ","i","s",":">>
                              ELSE <<"T","h","e"," ">> \o value \o <<"s"," ","f","o","r"," ","t","h","i","s"," ">> \o funcname
                                   \o <<" ","a","r","e",":">>
                     adesc == AddChild([Element("ADESC") EXCEPT !.title = Some(VALUES)],
                                       [Element("PARA") EXCEPT !.text = Some(intro)])
                     row0 == Row(<<Data(Value)>>
                                 \o (IF has_type THEN <<Data(<<"T","y","p","e"," ","i","n","f","o","r","m","a","t","i","o","n">>)>>
                                     ELSE <<>>)
                                 \o <<Data(<<"D","e","f","i","n","i","t","i","o","n">>)>>)
                     then_tbl(tbl) ==
                         LET withtbl == IF nparams > 0 THEN AddChild(adesc, tbl.out) ELSE adesc
                             ctx2 == IF nparams > 0 THEN tbl.ctx ELSE rv.ctx
                         IN IF nparams = 0 /\ Len(retinfo) = 0
                            THEN IF Len(fieldinfo[1].raises) = 0
                                 THEN Ret(Raise(ctx, "AssertionError", "raises"), <<>>)
                                 ELSE Ret(ctx, <<>>)
                            ELSE IF Failed(rv.ctx) THEN Ret(rv.ctx, <<>>)
                            ELSE IF nparams = 0 /\ rv.out = <<>>
                            THEN Ret(dbg(rv.ctx, "No parameters or return value", "INFO"), <<>>)
                            ELSE IF Failed(ctx2) THEN Ret(ctx2, <<>>)
                            ELSE IF rv.out = <<>> THEN Ret(ctx2, <<withtbl>>)
                            ELSE Ret(ctx2,
                                     <<AddChild(AddChild(withtbl,
                                           [Element("PARA") EXCEPT
                                               !.title = Some(<<"R","e","t","u","r","n"," ","v","a","l","u","e">>),
                                               !.text = Some(<<"T","h","e"," ","r","e","t","u","r","n"," ","v","a","l","u","e"," ","f","r","o","m"," ","t","h","i","s"," ","f","u","n","c","t","i","o","n"," ","i","s",":">>)]),
                                           rv.out[1])>>)
                 IN then_tbl(param_rows(rv.ctx, parinfo, has_type,
                                        AddChild(Element("TABLE"), row0)))
         IN then_rv(return_value(ctx, retinfo))

\* ---------------------------------------------------------------- see also

\* the characters in the order of their code points
CharOrder ==
    <<"\t", "\n", " ", "!", "\"", "#", "$", "%", "&", "'", "(", ")", "*", "+",
      ",", "-", ".", "/", "0", "1", "2", "3", "4", "5", "6", "7", "8", "9",
      ":", ";", "<", "=", ">", "?", "@">> \o UpperLetters
    \o <<"[", "\\", "]", "^", "_", Backquote>> \o LowerLetters
    \o <<"{", "|", "}", "~">>

CharRank(c) ==
    IF \E i \in 1..Len(CharOrder) : CharOrder[i] = c
    THEN CHOOSE i \in 1..Len(CharOrder) : CharOrder[i] = c
    ELSE 0

\* s < t on strings
RECURSIVE StrLess(_, _)
StrLess(s, t) ==
    IF t = <<>> THEN FALSE
    ELSE IF s = <<>> THEN TRUE
    ELSE IF s[1] = t[1] THEN StrLess(Tail(s), Tail(t))
    ELSE CharRank(s[1]) < CharRank(t[1])

\* list.sort() on strings
RECURSIVE Sorted(_)
Sorted(xs) ==
    IF xs = <<>> THEN <<>>
    ELSE LET m == CHOOSE i \in 1..Len(xs) :
                      \A j \in 1..Len(xs) : ~StrLess(xs[j], xs[i])
         IN <<xs[m]>> \o Sorted([i \in 1..(Len(xs) - 1) |->
                                     IF i < m THEN xs[i] ELSE xs[i + 1]])

\* mkmodels of create_seealso
mkmodels(symbol) ==
    IF ~symbol.some THEN <<>>
    ELSE IF ~symbol.ismodel THEN <<>>
    ELSE IF symbol.xskind # "" THEN <<"x","s","m","o","d","e","l","s">>
    ELSE <<"s","h","m","o","d","e","l","s">>

create_seealso(ctx, name, seealso, symbol) ==
    LET dsg == mkmodels(symbol)
        nlower == Lower(name)
        pairs == [i \in 1..Len(seealso.v) |->
                     IF StrLess(nlower, Lower(seealso.v[i]))
                     THEN nlower \o Lower(seealso.v[i])
                     ELSE Lower(seealso.v[i]) \o nlower]
    IN IF ~seealso.some
       THEN Ret(IF dsg = <<>> THEN dbg(ctx, "- has no SEE ALSO", "DBG") ELSE ctx,
                [seealso |-> <<>>, dsg |-> dsg])
       ELSE Ret(ctx, [seealso |-> Join(Sorted(pairs), <<" ">>), dsg |-> dsg])

\* sorted(list(set)) on strings
RECURSIVE SortedSet(_)
SortedSet(S) ==
    IF S = {} THEN <<>>
    ELSE LET m == CHOOSE x \in S : \A y \in S : ~StrLess(y, x)
         IN <<m>> \o SortedSet(S \ {m})

\* ---------------------------------------------------------------- metadata
\* A dictionary is a function from its keys to optional strings.

MultiValueKeys == {"seealsogroups", "displayseealsogroups", "refkeywords"}

\* the words are joined as they come, neither sorted nor made unique
append_values_faulty(xmlattrs, k, v) ==
    LET vals == Split(xmlattrs[k].v) \o Split(v.v)
    IN Some(Join(vals, <<" ">>))

\* append_values(k, v) of merge_metadata
append_values(xmlattrs, k, v) ==
    LET vals == Split(xmlattrs[k].v) \o Split(v.v)
    IN Some(Join(SortedSet({vals[i] : i \in 1..Len(vals)}), <<" ">>))

\* without a dictionary from the ahelp file the multi-value keys are
\* rewritten as sorted word lists
merge_metadata_faulty(ctx, xmlattrs, metadata) ==
    IF ~metadata.some
    THEN Ret(ctx, [k \in DOMAIN xmlattrs |->
                      IF k \in MultiValueKeys /\ xmlattrs[k].some
                      THEN append_values(xmlattrs, k, Some(<<>>))
                      ELSE xmlattrs[k]])
    ELSE IF \E k \in DOMAIN metadata.v : k \notin DOMAIN xmlattrs
    THEN Ret(Raise(ctx, "AssertionError", "k in xmlattrs"), xmlattrs)
    ELSE IF \E k \in DOMAIN metadata.v \cap MultiValueKeys :
               ~xmlattrs[k].some \/ ~metadata.v[k].some
    THEN Ret(Raise(ctx, "AttributeError", "split"), xmlattrs)
    ELSE Ret(ctx, [k \in DOMAIN xmlattrs |->
                      IF k \notin DOMAIN metadata.v THEN xmlattrs[k]
                      ELSE IF k \in MultiValueKeys
                      THEN append_values(xmlattrs, k, metadata.v[k])
                      ELSE metadata.v[k]])

\* a key of the ahelp file that the docstring dictionary lacks is skipped
merge_metadata_faulty2(ctx, xmlattrs, metadata) ==
    IF ~metadata.some THEN Ret(ctx, xmlattrs)
    ELSE IF \E k \in DOMAIN metadata.v \cap MultiValueKeys :
               ~xmlattrs[k].some \/ ~metadata.v[k].some
    THEN Ret(Raise(ctx, "AttributeError", "split"), xmlattrs)
    ELSE Ret(ctx, [k \in DOMAIN xmlattrs |->
                      IF k \notin DOMAIN metadata.v THEN xmlattrs[k]
                      ELSE IF k \in MultiValueKeys
                      THEN append_values(xmlattrs, k, metadata.v[k])
                      ELSE metadata.v[k]])

merge_metadata(ctx, xmlattrs, metadata) ==
    IF ~metadata.some THEN Ret(ctx, xmlattrs)
    ELSE IF \E k \in DOMAIN metadata.v : k \notin DOMAIN xmlattrs
    THEN Ret(Raise(ctx, "AssertionError", "k in xmlattrs"), xmlattrs)
    ELSE IF \E k \in DOMAIN metadata.v \cap MultiValueKeys :
               ~xmlattrs[k].some \/ ~metadata.v[k].some
    THEN Ret(Raise(ctx, "AttributeError", "split"), xmlattrs)
    ELSE Ret(ctx, [k \in DOMAIN xmlattrs |->
                      IF k \notin DOMAIN metadata.v THEN xmlattrs[k]
                      ELSE IF k \in MultiValueKeys
                      THEN append_values(xmlattrs, k, metadata.v[k])
                      ELSE metadata.v[k]])

\* ----------------------------------------------------------------- context

ConfidenceNames ==
    {<<"g","e","t","_","c","o","n","f","_","r","e","s","u","l","t","s">>, <<"g","e","t","_","c","o","n","f","i","d","e","n","c","e","_","r","e","s","u","l","t","s">>, <<"g","e","t","_","c","o","n","f","_","o","p","t">>,
     <<"g","e","t","_","c","o","v","a","r","_","r","e","s","u","l","t","s">>, <<"g","e","t","_","c","o","v","a","r","_","o","p","t">>, <<"g","e","t","_","p","r","o","j","_","r","e","s","u","l","t","s">>,
     <<"g","e","t","_","p","r","o","j","_","o","p","t">>}

ModelingNames ==
    {<<"g","e","t","_","b","k","g","_","m","o","d","e","l">>, <<"g","e","t","_","b","k","g","_","s","o","u","r","c","e">>, <<"g","e","t","_","m","o","d","e","l","_","p","a","r","s">>,
     <<"g","e","t","_","m","o","d","e","l","_","t","y","p","e">>, <<"g","e","t","_","n","u","m","_","p","a","r","_","f","r","o","z","e","n">>, <<"g","e","t","_","n","u","m","_","p","a","r","_","t","h","a","w","e","d">>,
     <<"g","e","t","_","x","s","a","b","u","n","d">>, <<"g","e","t","_","x","s","c","o","s","m","o">>, <<"g","e","t","_","x","s","x","s","e","c","t">>, <<"g","e","t","_","x","s","x","s","e","t">>,
     <<"l","o","a","d","_","t","e","m","p","l","a","t","e","_","i","n","t","e","r","p","o","l","a","t","o","r">>, <<"l","o","a","d","_","x","s","t","a","b","l","e","_","m","o","d","e","l">>,
     <<"g","e","t","_","x","s","c","h","a","t","t","e","r">>, <<"s","e","t","_","x","s","c","h","a","t","t","e","r">>, <<"s","e","t","_","b","k","g","_","f","u","l","l","_","m","o","d","e","l">>}

DataNames ==
    {<<"c","r","e","a","t","e","_","a","r","f">>, <<"c","r","e","a","t","e","_","r","m","f">>, <<"g","e","t","_","b","k","g","_","a","r","f">>, <<"g","e","t","_","b","k","g","_","r","m","f">>,
     <<"l","o","a","d","_","a","s","c","i","i","_","w","i","t","h","_","e","r","r","o","r","s">>, <<"r","e","s","a","m","p","l","e","_","d","a","t","a">>}

VisualizationNames ==
    {<<"g","e","t","_","d","a","t","a","_","c","o","n","t","o","u","r">>, <<"g","e","t","_","d","a","t","a","_","c","o","n","t","o","u","r","_","p","r","e","f","s">>, <<"g","e","t","_","d","a","t","a","_","i","m","a","g","e">>,
     <<"g","e","t","_","f","i","t","_","c","o","n","t","o","u","r">>, <<"g","e","t","_","k","e","r","n","e","l","_","c","o","n","t","o","u","r">>, <<"g","e","t","_","k","e","r","n","e","l","_","i","m","a","g","e">>,
     <<"g","e","t","_","m","o","d","e","l","_","c","o","n","t","o","u","r">>, <<"g","e","t","_","m","o","d","e","l","_","c","o","n","t","o","u","r","_","p","r","e","f","s">>, <<"g","e","t","_","m","o","d","e","l","_","i","m","a","g","e">>,
     <<"g","e","t","_","p","s","f","_","c","o","n","t","o","u","r">>, <<"g","e","t","_","p","s","f","_","i","m","a","g","e">>, <<"g","e","t","_","r","a","t","i","o","_","c","o","n","t","o","u","r">>,
     <<"g","e","t","_","r","a","t","i","o","_","i","m","a","g","e">>, <<"g","e","t","_","r","e","s","i","d","_","c","o","n","t","o","u","r">>, <<"g","e","t","_","r","e","s","i","d","_","i","m","a","g","e">>,
     <<"g","e","t","_","s","o","u","r","c","e","_","c","o","n","t","o","u","r">>, <<"g","e","t","_","s","o","u","r","c","e","_","i","m","a","g","e">>}

\* the plotting rule is tried before the name rules that precede it
find_context_faulty(name, symbol) ==
    IF symbol.some /\ symbol.ismodel THEN <<"m","o","d","e","l","s">>
    ELSE IF StartsWith(name, <<"p","l","o","t","_">>) \/ Find(name, <<"_","p","l","o","t">>) # 0
    THEN <<"p","l","o","t","t","i","n","g">>
    ELSE IF name \in ConfidenceNames THEN <<"c","o","n","f","i","d","e","n","c","e">>
    ELSE IF StartsWith(name, <<"g","e","t","_","m","e","t","h","o","d">>) THEN <<"m","e","t","h","o","d","s">>
    ELSE IF name \in {<<"f","i","t","_","b","k","g">>, <<"g","e","t","_","f","i","t","_","r","e","s","u","l","t","s">>} THEN <<"f","i","t","t","i","n","g">>
    ELSE IF name \in {<<"i","g","n","o","r","e","2","d","_","i","m","a","g","e">>, <<"n","o","t","i","c","e","2","d","_","i","m","a","g","e">>} THEN <<"f","i","l","t","e","r","i","n","g">>
    ELSE IF name \in ModelingNames THEN <<"m","o","d","e","l","i","n","g">>
    ELSE IF name \in {<<"g","e","t","_","s","a","m","p","l","e","r","_","n","a","m","e">>, <<"g","e","t","_","s","a","m","p","l","e","r","_","o","p","t">>,
                      <<"g","e","t","_","s","t","a","t","_","n","a","m","e">>}
    THEN <<"s","t","a","t","i","s","t","i","c","s">>
    ELSE IF StartsWith(name, <<"g","r","o","u","p">>) \/ name \in DataNames THEN <<"d","a","t","a">>
    ELSE IF name \in {<<"m","u","l","t","i","n","o","r","m","a","l","_","p","d","f">>, <<"m","u","l","t","i","t","_","p","d","f">>} THEN <<"u","t","i","l","i","t","i","e","s">>
    ELSE IF name \in VisualizationNames THEN <<"v","i","s","u","a","l","i","z","a","t","i","o","n">>
    ELSE IF name \in {<<"g","e","t","_","f","u","n","c","t","i","o","n","s">>, <<"l","i","s","t","_","p","i","l","e","u","p","_","m","o","d","e","l","_","i","d","s">>,
                      <<"l","i","s","t","_","p","s","f","_","i","d","s">>}
    THEN <<"i","n","f","o">>
    ELSE IF name = <<"d","e","l","e","t","e","_","p","i","l","e","u","p","_","m","o","d","e","l">> THEN <<"m","o","d","e","l">>
    ELSE <<"s","h","e","r","p","a","i","s","h">>

find_context(name, symbol) ==
    IF symbol.some /\ symbol.ismodel THEN <<"m","o","d","e","l","s">>
    ELSE IF name \in ConfidenceNames THEN <<"c","o","n","f","i","d","e","n","c","e">>
    ELSE IF StartsWith(name, <<"g","e","t","_","m","e","t","h","o","d">>) THEN <<"m","e","t","h","o","d","s">>
    ELSE IF name \in {<<"f","i","t","_","b","k","g">>, <<"g","e","t","_","f","i","t","_","r","e","s","u","l","t","s">>} THEN <<"f","i","t","t","i","n","g">>
    ELSE IF name \in {<<"i","g","n","o","r","e","2","d","_","i","m","a","g","e">>, <<"n","o","t","i","c","e","2","d","_","i","m","a","g","e">>} THEN <<"f","i","l","t","e","r","i","n","g">>
    ELSE IF name \in ModelingNames THEN <<"m","o","d","e","l","i","n","g">>
    ELSE IF name \in {<<"g","e","t","_","s","a","m","p","l","e","r","_","n","a","m","e">>, <<"g","e","t","_","s","a","m","p","l","e","r","_","o","p","t">>,
                      <<"g","e","t","_","s","t","a","t","_","n","a","m","e">>}
    THEN <<"s","t","a","t","i","s","t","i","c","s">>
    ELSE IF StartsWith(name, <<"p","l","o","t","_">>) \/ Find(name, <<"_","p","l","o","t">>) # 0
    THEN <<"p","l","o","t","t","i","n","g">>
    ELSE IF StartsWith(name, <<"g","r","o","u","p">>) \/ name \in DataNames THEN <<"d","a","t","a">>
    ELSE IF name \in {<<"m","u","l","t","i","n","o","r","m","a","l","_","p","d","f">>, <<"m","u","l","t","i","t","_","p","d","f">>} THEN <<"u","t","i","l","i","t","i","e","s">>
    ELSE IF name \in VisualizationNames THEN <<"v","i","s","u","a","l","i","z","a","t","i","o","n">>
    ELSE IF name \in {<<"g","e","t","_","f","u","n","c","t","i","o","n","s">>, <<"l","i","s","t","_","p","i","l","e","u","p","_","m","o","d","e","l","_","i","d","s">>,
                      <<"l","i","s","t","_","p","s","f","_","i","d","s">>}
    THEN <<"i","n","f","o">>
    ELSE IF name = <<"d","e","l","e","t","e","_","p","i","l","e","u","p","_","m","o","d","e","l">> THEN <<"m","o","d","e","l">>
    ELSE <<"s","h","e","r","p","a","i","s","h">>

\* ------------------------------------------------------ assembly of the page

CIAOVER == <<"C","I","A","O"," ","4",".","1","8">>

XSPECVER == <<"1","2",".","1","4",".","0","k">>

LASTMOD == <<"D","e","c","e","m","b","e","r"," ","2","0","2","5">>

\* whether the symbol is a ModelWrapper of an XSPEC model class
IsXspecModel(symbol) == symbol.some /\ symbol.ismodel /\ symbol.xskind # ""

\* add_xspec_model_to_syntax
add_xspec_model_to_syntax(syntax, name, symbol) ==
    LET mdesc == CASE symbol.xskind = "additive" -> <<"a","n"," ","a","d","d","i","t","i","v","e">>
                   [] symbol.xskind = "multiplicative" -> <<"a"," ","m","u","l","t","i","p","l","i","c","a","t","i","v","e">>
                   [] OTHER -> <<"a"," ","c","o","n","v","o","l","u","t","i","o","n">>
    IN AddChild(AddChild(syntax, Line(<<>>)),
                Line(<<"T","h","e"," ">> \o name \o <<" ","m","o","d","e","l"," ","i","s"," ">> \o mdesc
                     \o <<" ","m","o","d","e","l"," ","c","o","m","p","o","n","e","n","t",".">>))

\* augment_examples: the example built from the model class goes first
augment_examples(examples, symbol) ==
    IF ~symbol.some \/ ~symbol.ismodel THEN examples
    ELSE LET mtype == Lower(symbol.classname)
             syn == AddChild(AddChild(Element("SYNTAX"),
                        Line(<<">",">",">"," ","c","r","e","a","t","e","_","m","o","d","e","l","_","c","o","m","p","o","n","e","n","t","(","\"">> \o mtype
                             \o <<"\"",","," ","\"","m","d","l","\"",")">>)),
                        Line(<<">",">",">"," ","p","r","i","n","t","(","m","d","l",")">>))
             desc == AddChild(AddChild(Element("DESC"),
                        [Element("PARA") EXCEPT !.text =
                            Some(<<"C","r","e","a","t","e"," ","a"," ","c","o","m","p","o","n","e","n","t"," ","o","f"," ","t","h","e"," ">> \o mtype
                                 \o <<" ","m","o","d","e","l"," ","a","n","d"," ","d","i","s","p","l","a","y"," ","i","t","s"," ","d","e","f","a","u","l","t"," ","p","a","r","a","m","e","t","e","r","s","."," ","T","h","e"," ","o","u","t","p","u","t"," ","i","s",":">>)]),
                        Verbatim(symbol.strval))
             example == AddChild(AddChild(Element("QEXAMPLE"), syn), desc)
             base == IF examples = <<>> THEN Element("QEXAMPLELIST")
                     ELSE examples[1]
         IN <<[base EXCEPT !.kids = <<example>> \o @]>>

CollapseNames == {<<"x","s","a","g","n","s","l","i","m">>, <<"x","s","b","w","c","y","c","l">>, <<"x","s","z","k","e","r","r","b","b">>}

VoigtNames == {<<"p","s","e","u","d","o","v","o","i","g","t","1","d">>, <<"v","o","i","g","t","1","d">>}

HasTitle(ps, title) == \E i \in 1..Len(ps) : ps[i].title = Some(title)

\* the Added entries are put before the Changed entries
flush_versions_faulty(ctx, name) ==
    LET store == ctx.store
        skippy == /\ HasTitle(store.versionchanged, <<"C","h","a","n","g","e","d"," ","i","n"," ","C","I","A","O"," ","4",".","1","4">>)
                  /\ HasTitle(store.versionadded, <<"N","e","w"," ","i","n"," ","C","I","A","O"," ","4",".","1","4">>)
        changed == IF skippy THEN <<>> ELSE store.versionchanged
        added == IF name \in VoigtNames
                 THEN [i \in 1..Len(store.versionadded) |->
                          [store.versionadded[i] EXCEPT !.text =
                              Some(<<"T","h","e"," ","p","s","e","u","d","o","v","o","i","g","t","1","d"," ","a","n","d"," ","v","o","i","g","t","1","d"," ","m","o","d","e","l","s"," ","w","e","r","e"," ","a","d","d","e","d"," ","i","n"," ","C","I","A","O"," ","4",".","1","3"," ","a","n","d"," ","r","e","p","l","a","c","e"," ","t","h","e"," ","a","b","s","o","r","p","t","i","o","n","v","o","i","g","t"," ","a","n","d"," ","e","m","i","s","s","i","o","n","v","o","i","g","t"," ","m","o","d","e","l","s",".">>)]]
                 ELSE store.versionadded
        versioninfo == [[Element("ADESC") EXCEPT
                            !.title = Some(<<"C","h","a","n","g","e","s"," ","i","n"," ","C","I","A","O">>)]
                        EXCEPT !.kids = added \o changed]
    IN IF skippy /\ name \notin CollapseNames
       THEN Ret(Raise(ctx, "RuntimeError", "problem"), <<>>)
       ELSE IF name \in VoigtNames
               /\ \E i \in 1..Len(store.versionadded) :
                      store.versionadded[i].text.some
       THEN Ret(Raise([ctx EXCEPT !.store.versionchanged = changed],
                      "AssertionError", "p.text is None"), <<>>)
       ELSE Ret([ctx EXCEPT !.store.versionchanged = changed,
                            !.store.versionadded = added,
                            !.store.DONE = TRUE],
                IF Len(changed) + Len(added) = 0 THEN <<>> ELSE <<versioninfo>>)

\* the section is written even when the store holds no entry
flush_versions_faulty2(ctx, name) ==
    LET store == ctx.store
        skippy == /\ HasTitle(store.versionchanged, <<"C","h","a","n","g","e","d"," ","i","n"," ","C","I","A","O"," ","4",".","1","4">>)
                  /\ HasTitle(store.versionadded, <<"N","e","w"," ","i","n"," ","C","I","A","O"," ","4",".","1","4">>)
        changed == IF skippy THEN <<>> ELSE store.versionchanged
        versioninfo == [[Element("ADESC") EXCEPT !.title = Some(<<"C","h","a","n","g","e","s"," ","i","n"," ","C","I","A","O">>)]
                        EXCEPT !.kids = changed \o store.versionadded]
    IN IF skippy /\ name \notin CollapseNames
       THEN Ret(Raise(ctx, "RuntimeError", "problem"), <<>>)
       ELSE Ret([ctx EXCEPT !.store.versionchanged = changed, !.store.DONE = TRUE],
                <<versioninfo>>)

\* the consolidation of the version store at the end of convert_docutils:
\* the Changed entries, then the Added entries, then the DONE marker
flush_versions(ctx, name) ==
    LET store == ctx.store
        skippy == /\ HasTitle(store.versionchanged, <<"C","h","a","n","g","e","d"," ","i","n"," ","C","I","A","O"," ","4",".","1","4">>)
                  /\ HasTitle(store.versionadded, <<"N","e","w"," ","i","n"," ","C","I","A","O"," ","4",".","1","4">>)
        changed == IF skippy THEN <<>> ELSE store.versionchanged
        added == IF name \in VoigtNames
                 THEN [i \in 1..Len(store.versionadded) |->
                          [store.versionadded[i] EXCEPT !.text =
                              Some(<<"T","h","e"," ","p","s","e","u","d","o","v","o","i","g","t","1","d"," ","a","n","d"," ","v","o","i","g","t","1","d"," ","m","o","d","e","l","s"," ","w","e","r","e"," ","a","d","d","e","d"," ","i","n"," ","C","I","A","O"," ","4",".","1","3"," ","a","n","d"," ","r","e","p","l","a","c","e"," ","t","h","e"," ","a","b","s","o","r","p","t","i","o","n","v","o","i","g","t"," ","a","n","d"," ","e","m","i","s","s","i","o","n","v","o","i","g","t"," ","m","o","d","e","l","s",".">>)]]
                 ELSE store.versionadded
        versioninfo == [[Element("ADESC") EXCEPT
                            !.title = Some(<<"C","h","a","n","g","e","s"," ","i","n"," ","C","I","A","O">>)]
                        EXCEPT !.kids = changed \o added]
    IN IF skippy /\ name \notin CollapseNames
       THEN Ret(Raise(ctx, "RuntimeError", "problem"), <<>>)
       ELSE IF name \in VoigtNames
               /\ \E i \in 1..Len(store.versionadded) :
                      store.versionadded[i].text.some
       THEN Ret(Raise([ctx EXCEPT !.store.versionchanged = changed],
                      "AssertionError", "p.text is None"), <<>>)
       ELSE Ret([ctx EXCEPT !.store.versionchanged = changed,
                            !.store.versionadded = added,
                            !.store.DONE = TRUE],
                IF Len(changed) + Len(added) = 0 THEN <<>> ELSE <<versioninfo>>)

RootNames == [ahelp |-> "cxchelptopics", sxml |-> "cxcdocumentationpage"]

\* the refkeywords attribute before the merge
base_refkeywords(name, keywords) ==
    LET ks == IF name = <<"x","s","z","k","e","r","r","b","b">>
              THEN keywords \cup {<<"k","e","r","r","b","b">>, <<"x","s","k","e","r","r","b","b">>} ELSE keywords
    IN Join(SortedSet(ks)
            \o (IF Find(name, <<"_">>) # 0 THEN SplitOn(name, "_") ELSE <<>>),
            <<" ">>)

\* the ADESC added when the name contains xs
xspec_notice ==
    AddChild(AddChild([Element("ADESC") EXCEPT
                          !.title = Some(<<"X","S","P","E","C"," ","v","e","r","s","i","o","n">>)],
                 [Element("PARA") EXCEPT !.text =
                     Some(CIAOVER \o <<" ","c","o","m","e","s"," ","w","i","t","h"," ","s","u","p","p","o","r","t"," ","f","o","r"," ","v","e","r","s","i","o","n"," ">>
                          \o XSPECVER
                          \o <<" ","o","f"," ","t","h","e"," ","X","S","P","E","C"," ","m","o","d","e","l","s","."," ","T","h","i","s"," ","c","a","n"," ","b","e"," ","c","h","e","c","k","e","d"," ","w","i","t","h"," ","t","h","e"," ","f","o","l","l","o","w","i","n","g",":">>)]),
             AddChild(Element("PARA"),
                 AddChild(AddChild(Element("SYNTAX"),
                     Line(<<"%"," ","p","y","t","h","o","n"," ","-","c"," ","'","f","r","o","m"," ","s","h","e","r","p","a",".","a","s","t","r","o"," ","i","m","p","o","r","t"," ","x","s","p","e","c",";"," ","p","r","i","n","t","(","x","s","p","e","c",".","g","e","t","_","x","s","v","e","r","s","i","o","n","(",")",")","'">>)),
                     Line(XSPECVER))))

bugs ==
    AddChild(Element("BUGS"),
        AddChild([Element("PARA") EXCEPT !.text = Some(<<"S","e","e"," ","t","h","e"," ">>)],
            [Href(<<"b","u","g","s"," ","p","a","g","e","s"," ","o","n"," ","t","h","e"," ","S","h","e","r","p","a"," ","w","e","b","s","i","t","e">>,
                  Some(<<"h","t","t","p","s",":","/","/","c","x","c",".","h","a","r","v","a","r","d",".","e","d","u","/","s","h","e","r","p","a","/","b","u","g","s","/">>))
             EXCEPT !.tail = Some(<<" ","f","o","r"," ","a","n"," ","u","p","-","t","o","-","d","a","t","e"," ","l","i","s","t","i","n","g"," ","o","f"," ","k","n","o","w","n"," ","b","u","g","s",".">>)]))

\* the parameters are put before the examples
entry_faulty(name, sec) ==
    [Element("ENTRY") EXCEPT !.kids =
        sec.synopsis \o sec.syntax \o sec.desc \o sec.params \o sec.examples
        \o sec.warnings \o sec.notes \o sec.notes2 \o sec.refs
        \o sec.versioninfo
        \o (IF Find(name, <<"x","s">>) # 0 THEN <<xspec_notice>> ELSE <<>>)
        \o <<bugs, [Element("LASTMODIFIED") EXCEPT !.text = Some(LASTMOD)]>>]

\* the ENTRY element: the sections present, in the fixed order, then the
\* fixed trailing blocks
entry(name, sec) ==
    [Element("ENTRY") EXCEPT !.kids =
        sec.synopsis \o sec.syntax \o sec.desc \o sec.examples \o sec.params
        \o sec.warnings \o sec.notes \o sec.notes2 \o sec.refs
        \o sec.versioninfo
        \o (IF Find(name, <<"x","s">>) # 0 THEN <<xspec_notice>> ELSE <<>>)
        \o <<bugs, [Element("LASTMODIFIED") EXCEPT !.text = Some(LASTMOD)]>>]

\* the end of convert_docutils, after the version store has been flushed:
\* the attributes of the ENTRY and the document returned
assemble(ctx, name, symbol, dtd, metadata, synonyms, sec) ==
    LET base == [pkg |-> Some(<<"s","h","e","r","p","a">>), key |-> Some(name),
                 refkeywords |-> Some(base_refkeywords(name, sec.refkeywords)),
                 seealsogroups |-> Some(sec.seealsotags),
                 displayseealsogroups |-> Some(sec.displayseealsotags),
                 context |-> None]
        then_m(m) ==
            LET context == find_context(name, symbol)
                ctx1 == IF ~m.out.context.some /\ context = <<"s","h","e","r","p","a","i","s","h">>
                        THEN dbg(m.ctx, "- fall back context=sherpaish", "DBG")
                        ELSE m.ctx
                a1 == IF m.out.context.some THEN m.out
                      ELSE [m.out EXCEPT !.context = Some(context)]
                a2 == IF synonyms.some
                      THEN [a1 EXCEPT !.refkeywords =
                               Some(Join(synonyms.v, <<" ">>) \o <<" ">> \o @.v)]
                      ELSE a1
            IN IF name = <<"x","s","z","k","e","r","r","b","b">> /\ sec.synopsis = <<>>
               THEN Ret(Raise(ctx, "AttributeError", "refkeywords.add"), <<>>)
               ELSE IF Failed(m.ctx) THEN Ret(m.ctx, <<>>)
               ELSE IF synonyms.some /\ ~a1.refkeywords.some
               THEN Ret(Raise(ctx1, "TypeError", "refkeywords"), <<>>)
               ELSE Ret(ctx1, <<[root |-> RootNames[dtd], attrs |-> a2,
                                 entry |-> entry(name, sec)]>>)
    IN then_m(merge_metadata(ctx, base, metadata))

\* ------------------------------------------------- documents of the model

Para(s) == Node("paragraph", <<>>, <<Txt(s)>>)

Rubric(s) == Node("rubric", <<>>, <<Txt(s)>>)

Reference(text, uri) ==
    [Node("reference", <<>>, <<Txt(text)>>) EXCEPT
        !.name = Some(text), !.refuri = Some(uri)]

Target(n) == [Node("target", <<>>, <<>>) EXCEPT !.names = <<n>>]

RefA == Reference(<<"A">>, <<"h","t","t","p",":","/","/","a">>)

\* a paragraph that holds a reference and the target of that reference
ParaRefTarget == Node("paragraph", <<>>, <<RefA, Target(<<"a">>)>>)

\* a paragraph that holds a reference and the target of another name
ParaRefOther == Node("paragraph", <<>>, <<RefA, Target(<<"b">>)>>)

\* a paragraph whose target follows no reference
ParaTarget == Node("paragraph", <<>>, <<Txt(<<"S","e","e">>), Target(<<"a">>)>>)

FieldList ==
    Node("field_list", <<>>,
         <<Node("field", <<>>,
                <<Node("field_name", <<>>, <<Txt(<<"p","a","r","a","m"," ","i","d">>)>>),
                  Node("field_body", <<>>, <<Para(<<"d","a","t","a"," ","i","d">>)>>)>>)>>)

Warning == Node("warning", <<>>, <<Para(<<"S","l","o","w",".">>)>>)

SeeAlso(n) ==
    Node("seealso", <<>>,
         <<Node("paragraph", <<>>, <<Node("literal", <<>>, <<Txt(n)>>)>>)>>)

\* a list item that holds a reference and its target
BulletRefTarget ==
    Node("bullet_list", <<>>, <<Node("list_item", <<>>, <<ParaRefTarget>>)>>)

VersionAdded == Node("versionadded", <<>>, <<Para(<<"4",".","1","2",".","0"," ","N","e","w",".">>)>>)

SystemMessage == Node("system_message", <<>>, <<Para(<<"b","a","d">>)>>)

\* the top-level nodes the documents of the model are made of
TopNodes ==
    {Para(<<" ","F","i","t",".">>), ParaRefTarget, ParaRefOther, ParaTarget, FieldList,
     Warning, SeeAlso(<<"c","o","n","f">>), SeeAlso(<<"a",".","b">>), Rubric(<<"N","o","t","e","s">>),
     Rubric(<<"R","e","f","e","r","e","n","c","e","s">>), Rubric(<<"E","x","a","m","p","l","e","s">>),
     Para(XspecOnly(<<"1","2",".","9",".","1">>)), VersionAdded, SystemMessage,
     Node("transition", <<>>, <<>>), BulletRefTarget}

\* the top-level nodes of the documents of a batch of several symbols
BatchNodes ==
    {Para(<<"F","i","t",".">>), ParaRefTarget, ParaTarget, SeeAlso(<<"a",".","b">>),
     VersionAdded, Rubric(<<"N","o","t","e","s">>)}

\* the documents of at most n nodes drawn from a set
DocumentsOf(S, n) == UNION {[1..k -> S] : k \in 0..n}

\* a symbol of sherpa.astro.ui with what sym_to_sig, the model class and
\* the ahelp metadata give for it
Symbol(name, sig) ==
    [some |-> TRUE, name |-> name, sig |-> sig, ismodel |-> FALSE,
     xskind |-> "", classname |-> <<>>, strval |-> <<>>,
     synonyms |-> None, metadata |-> None]

NoSymbol == [Symbol(<<>>, None) EXCEPT !.some = FALSE]

\* the names to_process of a batch, in order
ToProcess ==
    <<Symbol(<<"f","i","t">>, Some(<<"f","i","t","(","i","d","=","N","o","n","e",")">>)),
      Symbol(<<"g","e","t","_","d","a","t","a">>, Some(<<"g","e","t","_","d","a","t","a","(","i","d","=","N","o","n","e",")">>)),
      Symbol(<<"p","l","o","t","_","f","i","t">>, None),
      Symbol(<<"c","o","n","f">>, Some(<<"c","o","n","f","(",")">>))>>

\* ------------------------------------- documents with a version history

VersionChanged(s) == Node("versionchanged", <<>>, <<Para(s)>>)

AddedMore == Node("versionadded", <<>>, <<Para(<<"4",".","1","2",".","0"," ","M","o","r","e",".">>)>>)

Added414 == Node("versionadded", <<>>, <<Para(<<"4",".","1","4",".","0"," ","N","e","w"," ","m","o","d","e","l",".">>)>>)

Changed414 == VersionChanged(<<"4",".","1","4",".","0"," ","F","i","x","e","d",".">>)

\* ".. versionadded: 4.12.0" with one colon missing: docutils reads a comment
CommentAdded == Node("comment", <<>>, <<Txt(<<"v","e","r","s","i","o","n","a","d","d","e","d",":"," ","4",".","1","2",".","0","\n","T","e","x","t",".">>)>>)

Container == Node("container", <<>>, <<Para(<<"B","o","x",".">>)>>)

\* the top-level nodes of the documents that carry a version history
HistoryNodes ==
    {Para(<<"F","i","t",".">>), VersionAdded, AddedMore, Added414, Changed414, CommentAdded,
     Container, Rubric(<<"N","o","t","e","s">>), SeeAlso(<<"a",".","b">>)}

\* a function with a synonym, a function without, and an XSPEC model
HistorySymbols ==
    {[Symbol(<<"c","o","v","a","r">>, Some(<<"c","o","v","a","r","(","*","a","r","g","s",")">>)) EXCEPT !.synonyms = Some(<<<<"c","o","v","a","r","i","a","n","c","e">>>>)],
     Symbol(<<"f","i","t">>, Some(<<"f","i","t","(","i","d","=","N","o","n","e",")">>)),
     [Symbol(<<"x","s","a","g","n","s","l","i","m">>, Some(<<"x","s","a","g","n","s","l","i","m">>)) EXCEPT
         !.ismodel = TRUE, !.xskind = "additive", !.classname = <<"X","S","a","g","n","s","l","i","m">>,
         !.strval = <<"x","s","a","g","n","s","l","i","m",".","m","d","l">>]}

\* ------------------------------------------------ documents made of sections

FieldListId ==
    Node("field_list", <<>>,
         <<Node("field", <<>>,
                <<Node("field_name", <<>>, <<Txt(<<"p","a","r","a","m"," ","i","d">>)>>),
                  Node("field_body", <<>>, <<Para(<<"d","a","t","a","s","e","t"," ","i","d","e","n","t","i","f","i","e","r">>)>>)>>)>>)

Footnote == Node("footnote", <<>>, <<Node("label", <<>>, <<Txt(<<"1">>)>>), Para(<<"R","e","f",".">>)>>)

\* the parts of a docstring, in the order numpydoc gives them: the summary,
\* the extended summary, a version directive, the parameters, a warning,
\* two Notes sections, the references and the examples
PageParts ==
    <<<<Para(<<"P","e","r","f","o","r","m"," ","a"," ","f","i","t",".">>)>>,
      <<Para(<<"F","i","t",".">>)>>,
      <<VersionAdded>>,
      <<FieldListId>>,
      <<Warning>>,
      <<Rubric(<<"N","o","t","e","s">>), Para(<<"S","l","o","w",".">>)>>,
      <<Rubric(<<"N","o","t","e","s">>), Para(<<"O","l","d",".">>)>>,
      <<Rubric(<<"R","e","f","e","r","e","n","c","e","s">>), Footnote>>,
      <<Rubric(<<"E","x","a","m","p","l","e","s">>), Para(<<"F","i","t"," ","t","h","e"," ","d","a","t","a",".">>),
        [Node("doctest_block", <<>>, <<Txt(<<">",">",">"," ","f","i","t","(",")">>)>>) EXCEPT !.xmlspace = "preserve"]>>>>

\* the documents that hold some of the parts, in that order
PageDocuments ==
    {Join([i \in 1..Len(PageParts) |-> IF i \in S THEN PageParts[i] ELSE <<>>], <<>>) :
        S \in SUBSET (1..Len(PageParts))}

\* a function, an XSPEC model, and a function whose name holds "xs"
PageSymbols ==
    {Symbol(<<"f","i","t">>, Some(<<"f","i","t","(","i","d","=","N","o","n","e",")">>)),
     [Symbol(<<"x","s","a","g","n","s","l","i","m">>, Some(<<"x","s","a","g","n","s","l","i","m">>)) EXCEPT
         !.ismodel = TRUE, !.xskind = "additive", !.classname = <<"X","S","a","g","n","s","l","i","m">>,
         !.strval = <<"x","s","a","g","n","s","l","i","m",".","m","d","l">>],
     Symbol(<<"g","e","t","_","x","s","a","b","u","n","d">>, Some(<<"g","e","t","_","x","s","a","b","u","n","d","(",")">>))}

\* names for every rule of find_context, names that two rules match, and
\* names that no rule matches
ContextNames ==
    {<<"g","e","t","_","c","o","n","f","_","o","p","t">>, <<"g","e","t","_","m","e","t","h","o","d","_","n","a","m","e">>, <<"g","e","t","_","m","e","t","h","o","d","_","p","l","o","t">>, <<"f","i","t","_","b","k","g">>,
     <<"n","o","t","i","c","e","2","d","_","i","m","a","g","e">>, <<"g","e","t","_","x","s","a","b","u","n","d">>, <<"g","e","t","_","s","t","a","t","_","n","a","m","e">>, <<"p","l","o","t","_","f","i","t">>,
     <<"g","e","t","_","d","a","t","a","_","p","l","o","t">>, <<"g","r","o","u","p","_","p","l","o","t">>, <<"g","r","o","u","p","_","c","o","u","n","t","s">>, <<"c","r","e","a","t","e","_","a","r","f">>,
     <<"m","u","l","t","i","t","_","p","d","f">>, <<"g","e","t","_","p","s","f","_","i","m","a","g","e">>, <<"l","i","s","t","_","p","s","f","_","i","d","s">>,
     <<"d","e","l","e","t","e","_","p","i","l","e","u","p","_","m","o","d","e","l">>, <<"f","i","t">>, <<"p","l","o","t">>, <<"r","e","g","r","o","u","p">>}

\* what find_metadata gives for the symbol: nothing, keywords only, or a
\* context
ContextAhelp ==
    {None, Some([refkeywords |-> Some(<<"f","i","t">>)]), Some([context |-> Some(<<"f","i","t","t","i","n","g">>)])}

\* functions of those names, and model components, one of them with a name
\* that a later rule matches
ContextSymbols ==
    {[Symbol(n, None) EXCEPT !.metadata = m] : n \in ContextNames, m \in ContextAhelp}
    \cup {[Symbol(n, None) EXCEPT !.metadata = m, !.ismodel = TRUE, !.classname = n,
                                  !.strval = n] :
             n \in {<<"g","a","u","s","s","1","d">>, <<"p","l","o","t","_","m","o","d","e","l">>}, m \in ContextAhelp}

\* the documents of those symbols: none, the summary alone, and a see-also
\* list
ContextDocuments == {<<>>, <<Para(<<"P","e","r","f","o","r","m"," ","a"," ","f","i","t",".">>)>>, <<SeeAlso(<<"a",".","b">>)>>}

Dtds == {"ahelp", "sxml"}

\* --------------------------------------------------------------- the state

VARIABLES
    references,     \* the module-level set of reference names
    store_versions, \* the module-level version-history store
    dtd,            \* the DTD the run was asked for
    batch,          \* whether the run is over several symbols
    to_process,     \* the symbols the batch loop has still to visit
    error_list,     \* the names whose processing raised an Exception
    nproc,          \* the number of files written
    halted,         \* the error that ended the process, if any
    pc,             \* the place reached in the batch loop / convert_docutils
    symbol,         \* the symbol being processed
    doc,            \* its document
    nodes,          \* the remainder of the document
    sec,            \* the sections found so far
    exc,            \* the exception raised by the conversion: type, message
    result,         \* what convert_docutils returned
    log,            \* the diagnostics of this conversion
    steps,          \* history: the extractors applied, in order
    consumed,       \* history: the nodes each of them took
    prev_store,     \* history: the version store as the last conversion left it
    corpus,         \* the name of the set the documents of the run are drawn from
    arg,            \* the function called on its own and the node handed to it
    ret             \* the elements that call returned

vars ==
    <<references, store_versions, dtd, batch, to_process, error_list, nproc, halted,
      pc, symbol, doc, nodes, sec, exc, result, log, steps, consumed,
      prev_store, corpus, arg, ret>>

\* the local variables of convert_docutils before the first extractor
NoSections ==
    [syntax |-> <<>>, synopsis |-> <<>>, refkeywords |-> {}, desc |-> <<>>,
     fieldlist1 |-> <<>>, warnings |-> <<>>, seealso |-> None,
     fieldlist2 |-> <<>>, params |-> <<>>, notes |-> <<>>, notes2 |-> <<>>,
     refs |-> <<>>, examples |-> <<>>, seealsotags |-> <<>>,
     displayseealsotags |-> <<>>, versioninfo |-> <<>>]

NoException == [type |-> "", msg |-> ""]

\* convert_docutils has returned nothing (yet)
NoResult == [kind |-> "none", tree |-> <<>>, nodes |-> <<>>]

\* no function is called on its own
NoCall == [fn |-> "", node |-> Node("", <<>>, <<>>), complex |-> FALSE]

\* the state of the module after import, at the head of the batch loop
InitWith(symbols, docs) ==
    /\ corpus = docs
    /\ arg = NoCall
    /\ ret = <<>>
    /\ references = {}
    /\ store_versions = NoStore
    /\ dtd \in Dtds
    /\ batch = (Len(symbols) > 1)
    /\ to_process = symbols
    /\ error_list = <<>>
    /\ nproc = 0
    /\ halted = ""
    /\ pc = "loop"
    /\ symbol = NoSymbol
    /\ doc = <<>>
    /\ nodes = <<>>
    /\ sec = NoSections
    /\ exc = NoException
    /\ result = NoResult
    /\ log = <<>>
    /\ steps = <<>>
    /\ consumed = <<>>
    /\ prev_store = NoStore

\* one symbol is processed
Init == InitWith(SubSeq(ToProcess, 1, 1), "sections")

\* a batch of MaxBatch symbols is processed
InitBatch == InitWith(SubSeq(ToProcess, 1, MaxBatch), "batch")

\* one symbol is processed, and its document carries a version history
InitHistory == \E s \in HistorySymbols : InitWith(<<s>>, "history")

\* one symbol is processed: its document is made of whole sections, or it is
\* a symbol that find_context classifies
InitPage ==
    \/ \E s \in PageSymbols : InitWith(<<s>>, "page")
    \/ \E s \in ContextSymbols : InitWith(<<s>>, "context")

\* ------------------------------------------------------------- the actions

\* the documents a symbol of the run can have
Documents ==
    IF batch THEN DocumentsOf(BatchNodes, MaxBatchDocLen)
    ELSE IF corpus = "history" THEN DocumentsOf(HistoryNodes, MaxHistoryDocLen)
    ELSE IF corpus = "page" THEN PageDocuments
    ELSE IF corpus = "context" THEN ContextDocuments
    ELSE DocumentsOf(TopNodes, MaxDocLen)

\* the flushed marker is cleared and the entries are kept
reset_stored_versions_faulty(store) ==
    IF store.set THEN [store EXCEPT !.DONE = FALSE] ELSE FreshStore

\* reset_stored_versions()
reset_stored_versions(store) == FreshStore

\* the module state and the log as a call finds them
Ctx ==
    [refs |-> references, store |-> store_versions, log |-> log,
     exc |-> "", msg |-> ""]

\* the module state and the log as a call leaves them; an exception ends
\* convert_docutils
Leave(c, next) ==
    /\ references' = c.refs
    /\ store_versions' = c.store
    /\ log' = c.log
    /\ exc' = [type |-> c.exc, msg |-> c.msg]
    /\ pc' = IF Failed(c) THEN "raised" ELSE next

\* the nodes between a remainder and the remainder an extractor returned
Run(prev, rest) ==
    IF Len(rest) <= Len(prev) THEN SubSeq(prev, 1, Len(prev) - Len(rest))
    ELSE <<>>

\* nodes = rest, with the history of the extraction
Took(step, rest) ==
    /\ nodes' = rest
    /\ steps' = Append(steps, step)
    /\ consumed' = Append(consumed, Run(nodes, rest))

\* no extractor is applied
NoExtraction == UNCHANGED <<nodes, steps, consumed>>

BatchUnchanged ==
    UNCHANGED <<dtd, batch, to_process, error_list, nproc, halted, symbol,
                doc, result, prev_store, corpus, arg, ret>>

\* The batch loop takes the next name; the symbol has a docstring and
\* process_symbol calls convert_docutils, which checks its arguments,
\* resets the version store and lists the nodes of the document.
ProcessSymbol ==
    /\ pc = "loop"
    /\ to_process # <<>>
    /\ \E d \in Documents :
          LET sym == Head(to_process)
              bad == sym.synonyms.some /\ Len(sym.synonyms.v) = 0
          IN /\ symbol' = sym
             /\ to_process' = Tail(to_process)
             /\ doc' = d
             /\ nodes' = d
             /\ sec' = NoSections
             /\ result' = NoResult
             /\ log' = <<>>
             /\ steps' = <<>>
             /\ consumed' = <<>>
             /\ prev_store' = store_versions
             /\ store_versions' = IF bad THEN store_versions
                                  ELSE reset_stored_versions(store_versions)
             /\ exc' = IF bad THEN [type |-> "AssertionError", msg |-> "synonyms"]
                       ELSE NoException
             /\ pc' = IF bad THEN "raised" ELSE "find_syntax"
    /\ UNCHANGED <<references, dtd, batch, error_list, nproc, halted,
                   corpus, arg, ret>>

\* sym_to_rst finds no docstring: process_symbol returns None and the loop
\* goes on to the next name
NoDoc ==
    /\ pc = "loop"
    /\ to_process # <<>>
    /\ to_process' = Tail(to_process)
    /\ UNCHANGED <<references, store_versions, dtd, batch, error_list, nproc,
                   halted, pc, symbol, doc, nodes, sec, exc, result, log,
                   steps, consumed, prev_store, corpus, arg, ret>>

FindSyntax ==
    /\ pc = "find_syntax"
    /\ \E r \in {find_syntax(Ctx, symbol.name, symbol.sig, nodes)} :
          /\ Leave(r.ctx, "find_synopsis")
          /\ Took("find_syntax", r.rest)
          /\ sec' = [sec EXCEPT !.syntax = r.out]
    /\ BatchUnchanged

FindSynopsis ==
    /\ pc = "find_synopsis"
    /\ \E r \in {find_synopsis(Ctx, nodes)} :
          /\ Leave(r.ctx, "find_desc")
          /\ Took("find_synopsis", r.rest)
          /\ sec' = [sec EXCEPT !.synopsis = r.out, !.refkeywords = r.keywords]
    /\ BatchUnchanged

\* find_desc, and then the lines an XSPEC model adds to the SYNTAX block
FindDesc ==
    /\ pc = "find_desc"
    /\ \E r \in {find_desc(Ctx, nodes, symbol.synonyms)} :
       LET c == IF ~Failed(r.ctx) /\ IsXspecModel(symbol) /\ sec.syntax = <<>>
                THEN Raise(r.ctx, "AssertionError", "syntax is not None")
                ELSE r.ctx
       IN /\ Leave(c, "find_fieldlist")
          /\ Took("find_desc", r.rest)
          /\ sec' = [sec EXCEPT
                        !.desc = r.out,
                        !.syntax = IF ~Failed(c) /\ IsXspecModel(symbol)
                                   THEN <<add_xspec_model_to_syntax(
                                            sec.syntax[1], symbol.name, symbol)>>
                                   ELSE @]
    /\ BatchUnchanged

FindFieldlist ==
    /\ pc = "find_fieldlist"
    /\ \E r \in {find_fieldlist(Ctx, nodes)} :
          /\ Leave(r.ctx, "find_warning")
          /\ Took("find_fieldlist", r.rest)
          /\ sec' = [sec EXCEPT !.fieldlist1 = r.out]
    /\ BatchUnchanged

FindWarning ==
    /\ pc = "find_warning"
    /\ \E r \in {find_warning(Ctx, nodes)} :
          /\ Leave(r.ctx, "find_seealso")
          /\ Took("find_warning", r.rest)
          /\ sec' = [sec EXCEPT !.warnings = r.out]
    /\ BatchUnchanged

FindSeealso ==
    /\ pc = "find_seealso"
    /\ \E r \in {find_seealso(Ctx, nodes)} :
          /\ Leave(r.ctx, "find_fieldlist2")
          /\ Took("find_seealso", r.rest)
          /\ sec' = [sec EXCEPT !.seealso = r.out]
    /\ BatchUnchanged

\* a second field list is found and ignored
FindFieldlist2 ==
    /\ pc = "find_fieldlist2"
    /\ \E r \in {find_fieldlist(Ctx, nodes)} :
       LET c == IF ~Failed(r.ctx) /\ r.out # <<>>
                THEN dbg(r.ctx, "- ignoring section fieldlist", "DBG")
                ELSE r.ctx
       IN /\ Leave(c, "extract_params")
          /\ Took("find_fieldlist", r.rest)
          /\ sec' = [sec EXCEPT !.fieldlist2 = r.out]
    /\ BatchUnchanged

ExtractParams ==
    /\ pc = "extract_params"
    /\ \E r \in {extract_params(Ctx, sec.fieldlist1)} :
          /\ Leave(r.ctx, "seealso_retry")
          /\ sec' = [sec EXCEPT !.params = r.out]
    /\ NoExtraction
    /\ BatchUnchanged

\* find_seealso is applied once only
SeealsoRetry_faulty ==
    /\ pc = "seealso_retry"
    /\ Leave(Ctx, "find_notes")
    /\ NoExtraction
    /\ UNCHANGED sec
    /\ BatchUnchanged

\* find_seealso is applied again when it found nothing the first time
SeealsoRetry ==
    /\ pc = "seealso_retry"
    /\ IF ~sec.seealso.some
       THEN \E r \in {find_seealso(Ctx, nodes)} :
            LET c == IF ~Failed(r.ctx) /\ r.out.some
                     THEN dbg(r.ctx, "- seealso is in wrong place", "DBG")
                     ELSE r.ctx
            IN /\ Leave(c, "find_notes")
               /\ Took("find_seealso", r.rest)
               /\ sec' = [sec EXCEPT !.seealso = r.out]
       ELSE /\ Leave(Ctx, "find_notes")
            /\ NoExtraction
            /\ UNCHANGED sec
    /\ BatchUnchanged

FindNotes ==
    /\ pc = "find_notes"
    /\ \E r \in {find_notes(Ctx, symbol.name, nodes)} :
          /\ Leave(r.ctx, "find_notes2")
          /\ Took("find_notes", r.rest)
          /\ sec' = [sec EXCEPT !.notes = r.out]
    /\ BatchUnchanged

\* a second Notes section is reported and kept
FindNotes2 ==
    /\ pc = "find_notes2"
    /\ \E r \in {find_notes(Ctx, symbol.name, nodes)} :
       LET c == IF ~Failed(r.ctx) /\ r.out # <<>>
                THEN dbg(r.ctx, "multiple NOTES sections", "ERROR")
                ELSE r.ctx
       IN /\ Leave(c, "find_references")
          /\ Took("find_notes", r.rest)
          /\ sec' = [sec EXCEPT !.notes2 = r.out]
    /\ BatchUnchanged

FindReferences ==
    /\ pc = "find_references"
    /\ \E r \in {find_references(Ctx, nodes)} :
          /\ Leave(r.ctx, "find_examples")
          /\ Took("find_references", r.rest)
          /\ sec' = [sec EXCEPT !.refs = r.out]
    /\ BatchUnchanged

\* find_examples, and then the example a model class adds
FindExamples ==
    /\ pc = "find_examples"
    /\ \E r \in {find_examples(Ctx, nodes)} :
          /\ Leave(r.ctx, "references_retry")
          /\ Took("find_examples", r.rest)
          /\ sec' = [sec EXCEPT !.examples =
                        IF Failed(r.ctx) THEN r.out
                        ELSE augment_examples(r.out, symbol)]
    /\ BatchUnchanged

\* find_references is applied again when it found nothing the first time
ReferencesRetry ==
    /\ pc = "references_retry"
    /\ IF sec.refs = <<>>
       THEN \E r \in {find_references(Ctx, nodes)} :
            LET c == IF ~Failed(r.ctx) /\ r.out # <<>>
                     THEN dbg(r.ctx, "References after EXAMPLES", "DBG")
                     ELSE r.ctx
            IN /\ Leave(c, "trailing")
               /\ Took("find_references", r.rest)
               /\ sec' = [sec EXCEPT !.refs = r.out]
       ELSE /\ Leave(Ctx, "trailing")
            /\ NoExtraction
            /\ UNCHANGED sec
    /\ BatchUnchanged

\* nodes are left over: they are reported and returned in place of the page
CheckTrailing ==
    /\ pc = "trailing"
    /\ IF nodes # <<>>
       THEN /\ log' = Append(log, [info |-> "WARN", msg |-> "ignoring trailing"])
            /\ result' = [kind |-> "nodes", tree |-> <<>>, nodes |-> nodes]
            /\ pc' = "return"
       ELSE /\ log' = IF sec.syntax = <<>>
                      THEN Append(log, [info |-> "TODO",
                                        msg |-> "need a SYNTAX block?"])
                      ELSE log
            /\ result' = result
            /\ pc' = "flush"
    /\ NoExtraction
    /\ UNCHANGED <<references, store_versions, dtd, batch, to_process,
                   error_list, nproc, halted, symbol, doc, sec, exc, prev_store,
                   corpus, arg, ret>>

\* create_seealso, and the version store is consolidated and marked DONE
Flush ==
    /\ pc = "flush"
    /\ \E s \in {create_seealso(Ctx, symbol.name, sec.seealso, symbol)} :
       \E r \in {flush_versions(s.ctx, symbol.name)} :
          /\ Leave(r.ctx, "assemble")
          /\ sec' = [sec EXCEPT !.seealsotags = s.out.seealso,
                                !.displayseealsotags = s.out.dsg,
                                !.versioninfo = r.out]
    /\ NoExtraction
    /\ BatchUnchanged

\* the page is built and returned
Assemble ==
    /\ pc = "assemble"
    /\ \E r \in {assemble(Ctx, symbol.name, symbol, dtd, symbol.metadata,
                         symbol.synonyms, sec)} :
          /\ Leave(r.ctx, "return")
          /\ result' = IF Failed(r.ctx) THEN result
                       ELSE [kind |-> "tree", tree |-> r.out, nodes |-> <<>>]
    /\ NoExtraction
    /\ UNCHANGED <<dtd, batch, to_process, error_list, nproc, halted, symbol,
                   doc, sec, prev_store, corpus, arg, ret>>

ConversionUnchanged ==
    UNCHANGED <<references, store_versions, dtd, batch, to_process, symbol,
                doc, nodes, sec, exc, result, log, steps, consumed, prev_store,
                corpus, arg, ret>>

\* except Exception: the name is recorded and the loop continues
ErrorProcessing ==
    /\ pc = "raised"
    /\ exc.type # "SystemExit"
    /\ error_list' = Append(error_list, symbol.name)
    /\ pc' = "loop"
    /\ UNCHANGED <<nproc, halted>>
    /\ ConversionUnchanged

\* sys.exit(1) is no Exception: it passes the handler and ends the process
SystemExit ==
    /\ pc = "raised"
    /\ exc.type = "SystemExit"
    /\ halted' = "SystemExit"
    /\ pc' = "exit"
    /\ UNCHANGED <<error_list, nproc>>
    /\ ConversionUnchanged

\* save_doc, outside the try block: xmldoc.getroot() of a list of nodes
\* raises AttributeError, which nothing catches
SaveDoc ==
    /\ pc = "return"
    /\ IF result.kind = "tree"
       THEN /\ nproc' = nproc + 1
            /\ pc' = "loop"
            /\ UNCHANGED halted
       ELSE /\ halted' = "AttributeError"
            /\ pc' = "exit"
            /\ UNCHANGED nproc
    /\ UNCHANGED error_list
    /\ ConversionUnchanged

\* the loop is over and the summary is printed
Finish ==
    /\ pc = "loop"
    /\ to_process = <<>>
    /\ pc' = "exit"
    /\ UNCHANGED <<error_list, nproc, halted>>
    /\ ConversionUnchanged

Next ==
    \/ ProcessSymbol
    \/ NoDoc
    \/ FindSyntax
    \/ FindSynopsis
    \/ FindDesc
    \/ FindFieldlist
    \/ FindWarning
    \/ FindSeealso
    \/ FindFieldlist2
    \/ ExtractParams
    \/ SeealsoRetry
    \/ FindNotes
    \/ FindNotes2
    \/ FindReferences
    \/ FindExamples
    \/ ReferencesRetry
    \/ CheckTrailing
    \/ Flush
    \/ Assemble
    \/ ErrorProcessing
    \/ SystemExit
    \/ SaveDoc
    \/ Finish

\* one symbol, with a document of at most MaxDocLen nodes
Spec == Init /\ [][Next]_vars

\* MaxBatch symbols, each with a document of at most MaxBatchDocLen nodes
SpecBatch == InitBatch /\ [][Next]_vars

\* one symbol, with a document of at most MaxHistoryDocLen nodes that carries
\* a version history
SpecHistory == InitHistory /\ [][Next]_vars

\* one symbol, with a document made of whole sections or with a name for
\* find_context
SpecPage == InitPage /\ [][Next]_vars

\* --------------------------------------------- a block converted on its own

Doctest(s) == [Node("doctest_block", <<>>, <<Txt(s)>>) EXCEPT !.xmlspace = "preserve"]

LiteralBlock(s) == [Node("literal_block", <<>>, <<Txt(s)>>) EXCEPT !.xmlspace = "preserve"]

BulletList(ps) ==
    Node("bullet_list", <<>>, [i \in 1..Len(ps) |-> Node("list_item", <<>>, <<ps[i]>>)])

EnumeratedList(ps) ==
    Node("enumerated_list", <<>>, [i \in 1..Len(ps) |-> Node("list_item", <<>>, <<ps[i]>>)])

BlockQuote(kids) == Node("block_quote", <<>>, kids)

\* the decimal digits of a natural number
RECURSIVE Digits(_)
Digits(n) ==
    LET d == <<"0","1","2","3","4","5","6","7","8","9">>
    IN IF n < 10 THEN <<d[n + 1]>> ELSE Digits(n \div 10) \o <<d[(n % 10) + 1]>>

\* the Sherpa version 4.m.p
Release(m, p) == <<"4",".">> \o Digits(m) \o <<".">> \o Digits(p)

\* the first words of the version blocks: the Sherpa releases, and words that
\* are no three-component version of series 4
VersionTokens ==
    {Release(m, p) : m \in 8..18, p \in 0..2}
    \cup {<<"4",".","1","2">>, <<"5",".","1",".","0">>, <<"4",".","1","2",".","0",".","1">>, <<"n","e","w">>}

Versioned(tag, s) == Node(tag, <<>>, <<Para(s)>>)

RefX == Reference(<<"X">>, <<"h","t","t","p",":","/","/","x">>)

\* paragraphs with hyperlinks
LinkParagraphs ==
    {Node("paragraph", <<>>, <<RefX, Txt(<<" ","m","o","r","e",".">>)>>),
     Node("paragraph", <<>>, <<Txt(<<"S","e","e"," ">>), RefA, Txt(<<" ","a","n","d"," ">>), RefX, Txt(<<".">>)>>),
     Node("paragraph", <<>>, <<Txt(<<"S","e","e"," ">>), Node("emphasis", <<>>, <<Txt(<<"t","h","i","s">>)>>),
                               Txt(<<" ","p","a","g","e"," ">>), RefX>>),
     Node("paragraph", <<>>, <<RefX, RefA>>),
     ParaRefTarget, ParaTarget, Para(<<"F","i","t",".">>)}

\* block quotes of every shape
BlockQuotes ==
    {BlockQuote(<<BulletList(<<Para(<<"o","n","e">>), Para(<<"t","w","o">>)>>)>>),
     BlockQuote(<<EnumeratedList(<<Para(<<"o","n","e">>)>>)>>),
     BlockQuote(<<Doctest(<<"a">>), Doctest(<<"b">>), Doctest(<<"c">>)>>),
     BlockQuote(<<Doctest(<<"a">>)>>),
     BlockQuote(<<Para(<<"F","i","t",".">>)>>),
     BlockQuote(<<BulletList(<<Para(<<"o","n","e">>)>>), Para(<<"F","i","t",".">>)>>),
     BlockQuote(<<Para(<<"F","i","t",".">>), Para(<<"M","o","r","e",".">>)>>),
     BlockQuote(<<Para(<<"F","i","t",".">>), Doctest(<<"a">>)>>),
     BlockQuote(<<Doctest(<<"a">>), Para(<<"F","i","t",".">>)>>),
     BlockQuote(<<Doctest(<<"a">>), BulletList(<<Para(<<"o","n","e">>)>>)>>),
     BlockQuote(<<LiteralBlock(<<"x"," ","="," ","1">>)>>),
     BlockQuote(<<BlockQuote(<<Para(<<"F","i","t",".">>)>>)>>)}

\* one block of every kind of the converter table, and blocks of other kinds
KindBlocks ==
    {Doctest(<<">",">",">"," ","f","i","t","(",")">>), LiteralBlock(<<"x"," ","="," ","1">>),
     BulletList(<<Para(<<"o","n","e">>)>>), EnumeratedList(<<Para(<<"o","n","e">>)>>),
     Node("definition_list", <<>>,
          <<Node("definition_list_item", <<>>,
                 <<Node("term", <<>>, <<Txt(<<"i","d">>)>>),
                   Node("definition", <<>>, <<Para(<<"T","h","e"," ","d","a","t","a"," ","s","e","t",".">>)>>)>>)>>),
     Node("definition", <<>>, <<Para(<<"T","h","e"," ","d","a","t","a"," ","s","e","t",".">>)>>),
     Node("table", <<>>,
          <<[Node("tgroup", <<>>,
                  <<Node("colspec", <<>>, <<>>),
                    Node("tbody", <<>>,
                         <<Node("row", <<>>,
                                <<Node("entry", <<>>, <<Para(<<"i","d">>)>>)>>)>>)>>)
             EXCEPT !.cols = 1]>>),
     Node("note", <<>>, <<Para(<<"S","l","o","w",".">>)>>),
     Node("note", <<>>, <<Para(<<"P","a","r","a","m","e","t","e","r"," ","r","e","n","a","m","e","s"," ","i","n"," ","X","S","P","E","C"," ","1","2",".","1","1",".","1">>), Para(<<"R","e","n","a","m","e","d",".">>)>>),
     Warning,
     Node("field_body", <<>>, <<Para(<<"d","a","t","a"," ","i","d">>)>>),
     SystemMessage,
     Node("transition", <<>>, <<>>), Rubric(<<"N","o","t","e","s">>), SeeAlso(<<"c","o","n","f">>), FieldList,
     Container, Node("footnote", <<>>, <<Node("label", <<>>, <<Txt(<<"1">>)>>), Para(<<"R","e","f",".">>)>>)}

\* the version blocks, well formed and written as a comment
VersionBlocks ==
    {Versioned(tag, tok \o <<" ","T","e","x","t",".">>) :
        tag \in {"versionadded", "versionchanged"}, tok \in VersionTokens}
    \cup {CommentAdded, AddedMore,
          Node("comment", <<>>, <<Txt(<<"v","e","r","s","i","o","n","c","h","a","n","g","e","d",":"," ","4",".","1","3",".","1","\n","T","e","x","t",".">>)>>),
          Node("comment", <<>>, <<Txt(<<"v","e","r","s","i","o","n","a","d","d","e","d",":"," ","4",".","1","2","\n","T","e","x","t",".">>)>>),
          Node("versionadded", <<>>, <<Para(<<"4",".","1","4",".","0">>), Para(<<"M","o","r","e",".">>)>>)}

\* the texts of the title references: the modules kept whole, names below
\* sherpa, names with a tilde, names without a namespace, and names whose
\* namespace cannot be taken off
TitleTexts ==
    {<<"s","h","e","r","p","a",".","s","i","m">>,
     <<"s","h","e","r","p","a",".","u","t","i","l","s">>,
     <<"s","h","e","r","p","a",".","a","s","t","r","o",".","d","a","t","a","s","t","a","c","k">>,
     <<"s","h","e","r","p","a",".","u","i">>,
     <<"s","h","e","r","p","a",".","a","s","t","r","o",".","u","i">>,
     <<"s","h","e","r","p","a",".","u","t","i","l","s",".","l","o","g","g","i","n","g">>,
     <<"s","h","e","r","p","a",".","a","s","t","r","o",".","u","i",".","f","i","t">>,
     <<"s","h","e","r","p","a",".","m","o","d","e","l","s",".","b","a","s","i","c",".","G","a","u","s","s","1","D">>,
     <<"~","s","h","e","r","p","a",".","a","s","t","r","o",".","u","i",".","f","i","t">>,
     <<"~","s","h","e","r","p","a",".","u","i">>, <<"~","f","i","t",".","F","i","t">>,
     <<"s","h","e","r","p","a",".","a","s","t","r","o",".","m","o","d","e","l","s",".","J","D","P","i","l","e","u","p">>,
     <<"~","s","h","e","r","p","a",".","i","n","s","t","r","u","m","e","n","t",".","P","S","F","M","o","d","e","l">>,
     <<"s","h","e","r","p","a",".">>, <<"f","i","t">>, <<"J","D","P","i","l","e","u","p">>,
     <<"n","u","m","p","y",".","n","d","a","r","r","a","y">>, <<>>, <<"s","h","e","r","p","a">>,
     <<"s","h","e","r","p","a","_","f","i","t">>, <<"~","f","i","t">>, <<"~">>}

TitleReferences == {Node("title_reference", <<>>, <<Txt(s)>>) : s \in TitleTexts}

\* the nodes of an Examples section: text that starts with a capital, text
\* that starts with a lower-case letter, the code-like blocks, a list, and a
\* block that has no place in an example
ExampleNodes ==
    {Para(<<"F","i","t"," ","t","h","e"," ","d","a","t","a",".">>), Para(<<"t","h","e","n"," ","p","l","o","t",".">>), Doctest(<<">",">",">"," ","f","i","t","(",")">>),
     LiteralBlock(<<"x"," ","="," ","1">>), BulletList(<<Para(<<"o","n","e">>), Para(<<"t","w","o">>)>>),
     BlockQuote(<<Doctest(<<"a">>)>>), Warning}

MaxExampleLen == 3

\* sections of up to MaxExampleLen nodes, and longer ones that mix text and code
ExampleSections ==
    UNION {[1..n -> ExampleNodes] : n \in 0..MaxExampleLen}
    \cup {<<Para(<<"F","i","t"," ","t","h","e"," ","d","a","t","a",".">>), Doctest(<<">",">",">"," ","f","i","t","(",")">>), Para(<<"t","h","e","n"," ","p","l","o","t",".">>),
            Doctest(<<">",">",">"," ","p","l","o","t","(",")">>), Para(<<"F","i","t"," ","a","g","a","i","n",".">>)>>,
          <<Doctest(<<">",">",">"," ","f","i","t","(",")">>), Para(<<"t","h","e","n"," ","p","l","o","t",".">>), LiteralBlock(<<"x"," ","="," ","1">>),
            Doctest(<<">",">",">"," ","p","l","o","t","(",")">>), Para(<<"t","h","e","n"," ","s","a","v","e",".">>), Para(<<"D","o","n","e",".">>)>>}

\* documents that start at the heading of the Examples section, or elsewhere
ExampleDocuments ==
    {<<Rubric(h)>> \o s \o rest :
        h \in {<<"E","x","a","m","p","l","e","s">>, <<"E","x","a","m","p","l","e">>},
        s \in ExampleSections,
        rest \in {<<>>, <<Rubric(<<"N","o","t","e","s">>), Para(<<"S","l","o","w",".">>)>>}}
    \cup {<<>>, <<Para(<<"F","i","t"," ","t","h","e"," ","d","a","t","a",".">>)>>, <<Rubric(<<"N","o","t","e","s">>), Para(<<"S","l","o","w",".">>)>>}

\* the calls made on their own
BlockCalls ==
    {[fn |-> "make_para_blocks", node |-> n, complex |-> TRUE] :
        n \in KindBlocks \cup BlockQuotes \cup VersionBlocks \cup LinkParagraphs}
    \cup {[fn |-> "convert_para", node |-> n, complex |-> c] :
             n \in LinkParagraphs, c \in BOOLEAN}
    \cup {[fn |-> "astext", node |-> n, complex |-> FALSE] : n \in TitleReferences}
    \cup {[fn |-> "find_examples", node |-> Node("document", <<>>, d), complex |-> FALSE] :
             d \in ExampleDocuments}

\* the version store during a conversion: fresh, holding an entry, flushed
BlockStores ==
    LET first == [Element("PARA") EXCEPT !.title = Some(<<"A","d","d","e","d"," ","i","n"," ","C","I","A","O"," ","4",".","1","2">>),
                                         !.text = Some(<<"N","e","w",".">>)]
        held == [FreshStore EXCEPT !.versionadded = <<first>>,
                                   !.titles = {<<"A","d","d","e","d"," ","i","n"," ","C","I","A","O"," ","4",".","1","2">>}]
    IN {FreshStore, held, [held EXCEPT !.DONE = TRUE]}

\* a conversion is under way and a block is about to be converted
InitBlocks ==
    /\ corpus = "blocks"
    /\ arg \in BlockCalls
    /\ ret = <<>>
    /\ references = {}
    /\ store_versions \in BlockStores
    /\ dtd = "ahelp"
    /\ batch = FALSE
    /\ to_process = <<>>
    /\ error_list = <<>>
    /\ nproc = 0
    /\ halted = ""
    /\ pc = "call"
    /\ symbol = NoSymbol
    /\ doc = <<>>
    /\ nodes = <<>>
    /\ sec = NoSections
    /\ exc = NoException
    /\ result = NoResult
    /\ log = <<>>
    /\ steps = <<>>
    /\ consumed = <<>>
    /\ prev_store = NoStore

\* make_para_blocks(para)
CallMakeParaBlocks ==
    /\ pc = "call"
    /\ arg.fn = "make_para_blocks"
    /\ \E r \in {make_para_blocks(Ctx, arg.node)} :
          /\ Leave(r.ctx, "returned")
          /\ ret' = r.out
    /\ UNCHANGED <<nodes, steps, consumed, sec>>
    /\ UNCHANGED <<dtd, batch, to_process, error_list, nproc, halted, symbol,
                   doc, result, prev_store, corpus, arg>>

\* convert_para(para, complex)
CallConvertPara ==
    /\ pc = "call"
    /\ arg.fn = "convert_para"
    /\ \E r \in {convert_para(Ctx, arg.node, arg.complex)} :
          /\ Leave(r.ctx, "returned")
          /\ ret' = IF Failed(r.ctx) THEN <<>> ELSE <<r.out>>
    /\ UNCHANGED <<nodes, steps, consumed, sec>>
    /\ UNCHANGED <<dtd, batch, to_process, error_list, nproc, halted, symbol,
                   doc, result, prev_store, corpus, arg>>

\* astext(node)
CallAstext ==
    /\ pc = "call"
    /\ arg.fn = "astext"
    /\ \E r \in {astext(Ctx, arg.node)} :
          /\ Leave(r.ctx, "returned")
          /\ ret' = IF Failed(r.ctx) THEN <<>> ELSE <<r.out>>
    /\ UNCHANGED <<nodes, steps, consumed, sec>>
    /\ UNCHANGED <<dtd, batch, to_process, error_list, nproc, halted, symbol,
                   doc, result, prev_store, corpus, arg>>

\* find_examples(indoc), the nodes of indoc held by a document node
CallFindExamples ==
    /\ pc = "call"
    /\ arg.fn = "find_examples"
    /\ \E r \in {find_examples(Ctx, arg.node.kids)} :
          /\ Leave(r.ctx, "returned")
          /\ ret' = IF Failed(r.ctx) THEN <<>> ELSE r.out
          /\ nodes' = IF Failed(r.ctx) THEN <<>> ELSE r.rest
    /\ UNCHANGED <<steps, consumed, sec>>
    /\ UNCHANGED <<dtd, batch, to_process, error_list, nproc, halted, symbol,
                   doc, result, prev_store, corpus, arg>>

NextBlocks ==
    \/ CallMakeParaBlocks
    \/ CallConvertPara
    \/ CallAstext
    \/ CallFindExamples

\* one block is converted on its own
SpecBlocks == InitBlocks /\ [][NextBlocks]_vars

\* ------------------------------------------ metadata merged on its own

\* values of a multi-value key: no word, one word, words out of order, a
\* word twice, and words that several blanks separate
WordLists == {<<>>, <<"f","i","t">>, <<"m","o","d","e","l"," ","f","i","t">>, <<"f","i","t"," "," ","d","a","t","a"," ","f","i","t">>}

\* the dictionary convert_docutils builds from the docstring
BaseAttrs ==
    {[pkg |-> Some(<<"s","h","e","r","p","a">>), key |-> Some(<<"f","i","t">>),
      refkeywords |-> Some(r), seealsogroups |-> Some(s),
      displayseealsogroups |-> Some(<<>>), context |-> None] :
        r \in WordLists, s \in {<<>>, <<"s","h",".","f","i","t">>}}

\* the values an ahelp file gives for a key; "author" is no key of the
\* docstring dictionary
AhelpValues(k) ==
    CASE k = "refkeywords" -> {Some(w) : w \in WordLists}
      [] k = "displayseealsogroups" -> {Some(<<"s","h","m","o","d","e","l","s">>), Some(<<"b"," ","a">>)}
      [] k = "context" -> {Some(<<"f","i","t","t","i","n","g">>)}
      [] k = "pkg" -> {Some(<<"c","i","a","o">>)}
      [] k = "author" -> {Some(<<"c","i","a","o">>)}

AhelpKeys == {"refkeywords", "displayseealsogroups", "context", "pkg", "author"}

\* what find_metadata returns: None, or the attributes of the ahelp file
AhelpAttrs ==
    {None} \cup
    {Some(f) : f \in UNION {{g \in [D -> UNION {AhelpValues(k) : k \in AhelpKeys}] :
                                \A k \in D : g[k] \in AhelpValues(k)} :
                            D \in SUBSET AhelpKeys}}

MergeCalls ==
    {[fn |-> "merge_metadata", base |-> b, override |-> o] :
        b \in BaseAttrs, o \in AhelpAttrs}

\* merge_metadata is about to be called
InitMerge ==
    /\ corpus = "metadata"
    /\ arg \in MergeCalls
    /\ ret = <<>>
    /\ references = {}
    /\ store_versions = FreshStore
    /\ dtd = "ahelp"
    /\ batch = FALSE
    /\ to_process = <<>>
    /\ error_list = <<>>
    /\ nproc = 0
    /\ halted = ""
    /\ pc = "call"
    /\ symbol = NoSymbol
    /\ doc = <<>>
    /\ nodes = <<>>
    /\ sec = NoSections
    /\ exc = NoException
    /\ result = NoResult
    /\ log = <<>>
    /\ steps = <<>>
    /\ consumed = <<>>
    /\ prev_store = NoStore

\* merge_metadata(xmlattrs, metadata)
CallMergeMetadata ==
    /\ pc = "call"
    /\ arg.fn = "merge_metadata"
    /\ \E r \in {merge_metadata(Ctx, arg.base, arg.override)} :
          /\ Leave(r.ctx, "returned")
          /\ ret' = IF Failed(r.ctx) THEN <<>> ELSE <<r.out>>
    /\ UNCHANGED <<nodes, steps, consumed, sec>>
    /\ UNCHANGED <<dtd, batch, to_process, error_list, nproc, halted, symbol,
                   doc, result, prev_store, corpus, arg>>

NextMerge == CallMergeMetadata

\* one pair of dictionaries is merged
SpecMerge == InitMerge /\ [][NextMerge]_vars

\* ------------------------------------------------------------- properties

\* whether a node, or a node below it, has one of the tags
RECURSIVE HasTag(_, _)
HasTag(node, tags) ==
    \/ node.tagname \in tags
    \/ \E i \in 1..Len(node.kids) : HasTag(node.kids[i], tags)

\* whether the document holds a block that records version history
HasVersionBlock(d) ==
    \E i \in 1..Len(d) : HasTag(d[i], {"versionadded", "versionchanged", "comment"})

\* C1: once every extractor has run, a remainder that is not empty is
\* fatal: convert_docutils raises, and returns neither a page nor the nodes
\* left over, so it never returns while nodes remain.
C1_TrailingRemainderIsFatal ==
    pc = "return" => nodes = <<>> /\ result.kind = "tree"

\* C2: in the batch loop a symbol whose document is malformed is recorded
\* in error_list and the loop goes on to the next symbol: nothing ends the
\* process, and the loop ends only when no symbol is left.
C2_NoSymbolHaltsTheBatch ==
    /\ halted = ""
    /\ pc = "exit" => to_process = <<>>
    /\ pc = "loop" /\ symbol.some /\ result.kind # "tree"
          => error_list # <<>> /\ error_list[Len(error_list)] = symbol.name

\* C3: the set of reference names is empty at the start of every
\* convert_docutils call.
C3_RegistryEmptyAtStart ==
    pc = "find_syntax" => references = {}

\* C4: every convert_docutils call starts with a version store whose Added
\* and Changed lists and title set are empty and whose flushed marker is
\* not set, so the version section of a page holds no entry of an earlier
\* document: a document without a version block gets no version section.
C4_VersionStoreIsFresh ==
    /\ pc = "find_syntax" => store_versions = FreshStore
    /\ sec.versioninfo # <<>> => HasVersionBlock(doc)

\* A conversion that recorded an entry and raised before the flush is
\* followed by the conversion of a document without a version block, which
\* reaches the assembly of its page.
C4_Witness ==
    /\ pc = "assemble"
    /\ prev_store.versionadded # <<>>
    /\ ~prev_store.DONE
    /\ ~HasVersionBlock(doc)
    /\ sec.versioninfo = <<>>

\* the reference and target nodes of a sequence of nodes, in document order
RECURSIVE InlineOf(_)
InlineOf(ns) ==
    IF ns = <<>> THEN <<>>
    ELSE (IF ns[1].tagname \in {"reference", "target"} THEN <<ns[1]>>
          ELSE InlineOf(ns[1].kids))
         \o InlineOf(Tail(ns))

\* every target of the document follows a reference of the document whose
\* name is, in lower case, the name of the target
TargetsReferenced(d) ==
    LET ev == InlineOf(d)
    IN \A i \in 1..Len(ev) :
          ev[i].tagname = "target" =>
             \E j \in 1..(i - 1) :
                /\ ev[j].tagname = "reference"
                /\ ev[j].name.some
                /\ \E k \in 1..Len(ev[i].names) :
                      Lower(ev[j].name.v) = Lower(ev[i].names[k])

\* C5: in a conversion that succeeds, every target of the document, the
\* References section included, has its lower-cased name among the names
\* of the references rendered before it in that conversion.
C5_TargetsAreReferenced ==
    result.kind = "tree" => TargetsReferenced(doc)

\* C6: astext of a reference records the name of the reference, so a
\* target that follows its reference in a list item or another container
\* rendered by astext passes the check: the conversion of a document whose
\* targets all follow their references raises no un-referenced target
\* error.
C6_InlineReferenceIsRecorded ==
    pc = "raised" /\ exc.msg = "Found un-referenced target block"
        => ~TargetsReferenced(doc)

IsPrefix(a, b) == Len(a) <= Len(b) /\ SubSeq(b, 1, Len(a)) = a

\* every extractor of convert_docutils has been applied
AllRan == pc \in {"trailing", "flush", "assemble", "return"}

First7 ==
    <<"find_syntax", "find_synopsis", "find_desc", "find_fieldlist",
      "find_warning", "find_seealso", "find_fieldlist">>

Mid4 == <<"find_notes", "find_notes", "find_references", "find_examples">>

\* C7 as stated: the extractors are applied in this order, twelve steps in
\* all, and no other extraction step is run.
C7_FixedOrder ==
    /\ IsPrefix(steps, First7 \o Mid4 \o <<"find_references">>)
    /\ AllRan => steps = First7 \o Mid4 \o <<"find_references">>

\* the first See Also extraction took nothing
SeealsoAgain == Len(consumed) >= 6 /\ consumed[6] = <<>>

\* the first References extraction took nothing
ReferencesAgain ==
    LET i == IF SeealsoAgain THEN 11 ELSE 10
    IN Len(consumed) >= i /\ consumed[i] = <<>>

ExpectedOrder ==
    First7 \o (IF SeealsoAgain THEN <<"find_seealso">> ELSE <<>>)
           \o Mid4
           \o (IF ReferencesAgain THEN <<"find_references">> ELSE <<>>)

\* C7, amended: the extractors are applied in the order Syntax, Synopsis,
\* Description, first field list, Warning, SeeAlso, second field list,
\* SeeAlso again exactly when the first SeeAlso extraction found nothing,
\* Notes, duplicate Notes, References, Examples, and References again
\* exactly when the first References extraction found nothing; no other
\* extraction step is run.
C7_OrderWithRetries ==
    /\ IsPrefix(steps, ExpectedOrder)
    /\ AllRan => steps = ExpectedOrder

\* A See Also block that follows a second field list is taken by the
\* second See Also extraction, and References is tried twice.
C7_Witness ==
    /\ pc = "trailing"
    /\ Len(steps) = 13
    /\ steps[8] = "find_seealso"
    /\ consumed[8] # <<>>
    /\ sec.seealso.some

\* the runs of a sequence of runs, one after the other
RECURSIVE Flatten(_)
Flatten(runs) == IF runs = <<>> THEN <<>> ELSE runs[1] \o Flatten(Tail(runs))

\* the remainder an extraction step found, and the remainder it left
RemainderBefore(i) ==
    SubSeq(doc, Len(Flatten(SubSeq(consumed, 1, i - 1))) + 1, Len(doc))

RemainderAfter(i) == RemainderBefore(i + 1)

\* the remainder is a suffix of the document, and the runs taken so far
\* followed by the remainder are the document
RunsPartitionDocument ==
    /\ Len(consumed) = Len(steps)
    /\ Flatten(consumed) \o nodes = doc
    /\ \A i \in 1..Len(consumed) :
          IsPrefix(consumed[i], RemainderBefore(i))

\* a rubric and the nodes up to the next rubric
RubricRun(run, rest) ==
    /\ run # <<>>
    /\ run[1].tagname = "rubric"
    /\ \A j \in 2..Len(run) : run[j].tagname # "rubric"
    /\ rest = <<>> \/ rest[1].tagname = "rubric"

\* the nodes up to the first node that ends a description
DescRun(run, rest) ==
    /\ \A j \in 1..Len(run) : run[j].tagname \notin DescStops
    /\ rest = <<>> \/ rest[1].tagname \in DescStops

\* C8 as stated: every run taken is no node, the head node, or the head
\* rubric and the nodes up to the next rubric; the remainder is a suffix of
\* the document, and the runs in order followed by the remainder are the
\* document.
C8_HeadRuns ==
    /\ RunsPartitionDocument
    /\ \A i \in 1..Len(consumed) :
          \/ Len(consumed[i]) <= 1
          \/ RubricRun(consumed[i], RemainderAfter(i))

\* C8, amended: every run taken is no node, the head node, for the
\* Description the nodes up to the first rubric, field list, container or
\* See Also block, or the head rubric and the nodes up to the next rubric;
\* the remainder is a suffix of the document, and the runs in order
\* followed by the remainder are the document.
C8_HeadRunsWithDescription ==
    /\ RunsPartitionDocument
    /\ \A i \in 1..Len(consumed) :
          \/ consumed[i] = <<>>
          \/ steps[i] = "find_desc" /\ DescRun(consumed[i], RemainderAfter(i))
          \/ /\ steps[i] \in {"find_notes", "find_references", "find_examples"}
             /\ RubricRun(consumed[i], RemainderAfter(i))
          \/ /\ steps[i] \in {"find_synopsis", "find_fieldlist", "find_warning",
                              "find_seealso"}
             /\ Len(consumed[i]) = 1

\* The Synopsis took the head node, the Description the two nodes after
\* it, and nothing is left.
C8_Witness ==
    /\ pc = "trailing"
    /\ Len(consumed[2]) = 1
    /\ Len(consumed[3]) = 2
    /\ nodes = <<>>

\* the sections that reach the page: a second field list does not
OutputOf(s) == [s EXCEPT !.fieldlist2 = <<>>]

\* C9: an extraction step that takes nodes and adds nothing to the
\* sections of the page or to the version store logs a diagnostic.
C9_NoSilentDrop ==
    [][(/\ Len(steps') = Len(steps) + 1
        /\ consumed'[Len(consumed')] # <<>>
        /\ OutputOf(sec') = OutputOf(sec)
        /\ store_versions' = store_versions
        /\ pc' # "raised")
       => Len(log') > Len(log)]_vars

\* C10: the Synopsis is present exactly when the first node of the
\* remainder after the Syntax extraction is a paragraph: it then holds the
\* stripped text of the paragraph and that node is taken; otherwise, a
\* document without nodes included, there is no Synopsis, the remainder is
\* unchanged and the conversion continues.
C10_SynopsisRule ==
    /\ symbol.some /\ doc = <<>> => pc # "raised"
    /\ Len(steps) >= 2 =>
          LET before == RemainderBefore(2)
          IN IF before # <<>> /\ is_para(before[1])
             THEN /\ sec.synopsis =
                        <<[Element("SYNOPSIS") EXCEPT
                              !.text = Some(Strip(NodeText(before[1])))]>>
                  /\ consumed[2] = <<before[1]>>
             ELSE /\ sec.synopsis = <<>>
                  /\ consumed[2] = <<>>
                  /\ pc = "raised" => Len(steps) > 2

\* the longest leading run of nodes of none of the kinds
RECURSIVE LeadingRun(_, _)
LeadingRun(ns, stops) ==
    IF ns = <<>> \/ ns[1].tagname \in stops THEN <<>>
    ELSE <<ns[1]>> \o LeadingRun(Tail(ns), stops)

\* the elements the nodes of a run convert to, in the order of the nodes
RECURSIVE ConvertedRun(_, _)
ConvertedRun(ctx, run) ==
    IF run = <<>> THEN <<>>
    ELSE LET r == make_para_blocks(ctx, run[1])
         IN r.out \o ConvertedRun(r.ctx, Tail(run))

SynonymSentence(syn) ==
    [Element("PARA") EXCEPT !.text =
        Some(<<"T","h","e"," ","f","u","n","c","t","i","o","n"," ","i","s"," ","a","l","s","o"," ","c","a","l","l","e","d"," ">> \o syn \o <<"(",")",".">>)]

Returns(c, out) ==
    IF Failed(c) THEN pc' = "raised" /\ exc'.type = c.exc /\ ret' = <<>>
    ELSE pc' = "returned" /\ ret' = out

\* C12: make_para_blocks dispatches on the kind of the node alone. A kind
\* that is not paragraph, not system_message and no key of the converter
\* table fails with the "Unsupported paragraph type" error and returns no
\* element; a system_message gives the empty list; a paragraph gives its
\* PARA; a kind of the table gives exactly the elements of its converter.
C12_DispatchByKind ==
    [][pc = "call" /\ arg.fn = "make_para_blocks" =>
        LET kind == arg.node.tagname
        IN CASE kind = "system_message" -> pc' = "returned" /\ ret' = <<>>
             [] kind = "paragraph" ->
                   LET p == convert_para(Ctx, arg.node, TRUE)
                   IN Returns(p.ctx, <<p.out>>)
             [] kind \in {"doctest_block", "block_quote", "enumerated_list",
                          "definition_list", "definition", "bullet_list",
                          "table", "note", "warning", "versionadded",
                          "versionchanged", "comment", "field_body",
                          "literal_block"} ->
                   LET r == para_converters(Ctx, arg.node)
                   IN Returns(r.ctx, r.out)
             [] OTHER ->
                   /\ pc' = "raised"
                   /\ exc' = [type |-> "ValueError",
                              msg |-> "Unsupported paragraph type"]
                   /\ ret' = <<>>
                   /\ store_versions' = store_versions]_vars

\* a transition was handed to make_para_blocks, which refused it
C12_Witness ==
    /\ arg.fn = "make_para_blocks"
    /\ arg.node.tagname = "transition"
    /\ pc = "raised"
    /\ exc.msg = "Unsupported paragraph type"
    /\ ret = <<>>

\* the places of the Reference children of a paragraph
RefPlaces(kids) == {i \in 1..Len(kids) : kids[i].tagname = "reference"}

\* the place of the k-th Reference child; 0 before the first, and the place
\* after the last child beyond the last
RefPlace(kids, k) ==
    IF k = 0 THEN 0
    ELSE IF k > Cardinality(RefPlaces(kids)) THEN Len(kids) + 1
    ELSE CHOOSE i \in RefPlaces(kids) :
             Cardinality({j \in RefPlaces(kids) : j <= i}) = k

\* the text rendered from the children between two places: the text of each
\* child that is no target, the pieces joined by a newline
RenderedBetween(ctx, kids, a, b) ==
    LET IsText(n) == n.tagname # "target"
        seg == SelectSeq(SubSeq(kids, a + 1, b - 1), IsText)
    IN Join([i \in 1..Len(seg) |-> astext(ctx, seg[i]).out], <<"\n">>)

\* C13: in hyperlink mode convert_para gives one PARA whose children are an
\* HREF for each Reference child of the paragraph, in order, with the display
\* text as text and the uri as link; the text rendered before the first
\* Reference is the text of the PARA, and the text rendered between the k-th
\* Reference and the next (or the end) is the tail of the k-th HREF. The
\* paragraph of Reference "X" to http://x and the text " more." gives a PARA
\* that holds the one HREF of text "X", link http://x and tail " more.".
C13_HyperlinkParagraph ==
    [][pc = "call" /\ arg.fn = "convert_para" /\ arg.complex /\ pc' = "returned" =>
        LET kids == arg.node.kids
            n == Cardinality(RefPlaces(kids))
            out == ret'[1]
        IN /\ Len(ret') = 1
           /\ out.tag = "PARA"
           /\ Len(out.kids) = n
           /\ out.text = Some(RenderedBetween(Ctx, kids, 0, RefPlace(kids, 1)))
           /\ \A k \in 1..n :
                 LET ref == kids[RefPlace(kids, k)]
                 IN /\ out.kids[k].tag = "HREF"
                    /\ out.kids[k].text = Some(NodeText(ref))
                    /\ out.kids[k].link = ref.refuri
                    /\ out.kids[k].tail =
                          Some(RenderedBetween(Ctx, kids, RefPlace(kids, k),
                                               RefPlace(kids, k + 1)))
           /\ kids = <<RefX, Txt(<<" ","m","o","r","e",".">>)>> =>
                 out.kids = <<[Element("HREF") EXCEPT
                                  !.text = Some(<<"X">>),
                                  !.link = Some(<<"h","t","t","p",":","/","/","x">>),
                                  !.tail = Some(<<" ","m","o","r","e",".">>)]>>]_vars

\* the paragraph of two References with text before, between and after them
\* was converted in hyperlink mode
C13_Witness ==
    /\ pc = "returned"
    /\ arg.fn = "convert_para" /\ arg.complex
    /\ Cardinality(RefPlaces(arg.node.kids)) = 2
    /\ Len(ret) = 1 /\ Len(ret[1].kids) = 2
    /\ ret[1].text = Some(<<"S","e","e"," ">>)
    /\ ret[1].kids[1].tail = Some(<<" ","a","n","d"," ">>)
    /\ ret[1].kids[2].tail = Some(<<".">>)

\* C14: a block quote whose only child is a bullet or enumerated list becomes
\* the LIST of that list; one whose children are all doctest blocks becomes
\* one VERBATIM of their texts joined by a blank line ("a", "b", "c" give
\* "a\n\nb\n\nc"); one whose only child is a paragraph becomes a VERBATIM of
\* the rendered text of the paragraph; every other shape is fatal.
C14_BlockQuoteShapes ==
    [][pc = "call" /\ arg.fn = "make_para_blocks"
       /\ arg.node.tagname = "block_quote" =>
        LET kids == arg.node.kids
            texts == [i \in 1..Len(kids) |-> NodeText(kids[i])]
        IN CASE Len(kids) = 1
                /\ kids[1].tagname \in {"bullet_list", "enumerated_list"} ->
                   /\ pc' = "returned"
                   /\ Len(ret') = 1 /\ ret'[1].tag = "LIST"
                   /\ ret' = make_para_blocks(Ctx, kids[1]).out
             [] kids # <<>>
                /\ \A i \in 1..Len(kids) : kids[i].tagname = "doctest_block" ->
                   /\ pc' = "returned"
                   /\ ret' = <<[Element("VERBATIM") EXCEPT
                                   !.text = Some(Join(texts, <<"\n", "\n">>))]>>
                   /\ texts = <<<<"a">>, <<"b">>, <<"c">>>> =>
                         ret'[1].text = Some(<<"a","\n","\n","b","\n","\n","c">>)
             [] Len(kids) = 1 /\ kids[1].tagname = "paragraph" ->
                   /\ pc' = "returned"
                   /\ ret' = <<[Element("VERBATIM") EXCEPT
                                   !.text = Some(astext(Ctx, kids[1]).out)]>>
             [] OTHER -> pc' = "raised" /\ ret' = <<>>]_vars

\* the block quote of the doctest blocks "a", "b" and "c" was converted
C14_Witness ==
    /\ pc = "returned"
    /\ arg.fn = "make_para_blocks"
    /\ arg.node = BlockQuote(<<Doctest(<<"a">>), Doctest(<<"b">>), Doctest(<<"c">>)>>)
    /\ Len(ret) = 1 /\ ret[1].tag = "VERBATIM"
    /\ ret[1].text = Some(<<"a","\n","\n","b","\n","\n","c">>)

\* the label of the entry a version block records, "" for any other node
EntryLabel(node) ==
    CASE node.tagname = "versionadded" -> "Added"
      [] node.tagname = "versionchanged" -> "Changed"
      [] node.tagname = "comment"
         /\ StartsWith(NodeText(node), <<"v","e","r","s","i","o","n","a","d","d","e","d",":">>) -> "Added"
      [] node.tagname = "comment"
         /\ StartsWith(NodeText(node), <<"v","e","r","s","i","o","n","c","h","a","n","g","e","d",":">>) -> "Changed"
      [] OTHER -> ""

\* the text of that entry: what follows the release, up to the end
EntryText(node) ==
    LET txt == NodeText(node)
        sep == IF node.tagname = "comment" THEN <<"\n">> ELSE <<" ">>
    IN From(txt, Find(txt, sep) + 1)

\* the texts of the entries the blocks of one label record, in document order
EntryTexts(d, label) ==
    LET Has(n) == EntryLabel(n) = label
        blocks == SelectSeq(d, Has)
    IN [i \in 1..Len(blocks) |-> Some(EntryText(blocks[i]))]

\* the entries of the version-history section of the page
FlushedEntries ==
    IF sec.versioninfo = <<>> THEN <<>> ELSE sec.versioninfo[1].kids

\* C15: in the consolidated version-history section all Changed entries come
\* before all Added entries, whatever the order of the blocks in the
\* document, and the entries of one kind keep the order in which they were
\* recorded.
C15_ChangedBeforeAdded ==
    pc = "assemble" =>
        [i \in 1..Len(FlushedEntries) |-> FlushedEntries[i].text]
            = EntryTexts(doc, "Changed") \o EntryTexts(doc, "Added")

\* a document with an Added block before a Changed block, and another Added
\* block after it, was flushed
C15_Witness ==
    /\ pc = "assemble"
    /\ Len(doc) = 3
    /\ EntryLabel(doc[1]) = "Added"
    /\ EntryLabel(doc[2]) = "Changed"
    /\ EntryLabel(doc[3]) = "Added"
    /\ Len(FlushedEntries) = 3
    /\ FlushedEntries[1].title = Some(<<"C","h","a","n","g","e","d"," ","i","n"," ","C","I","A","O"," ","4",".","1","4">>)

\* C16: in the flushed version-history section consecutive entries that
\* share a title carry it only on the first of them, whichever path (the
\* directive or the hand-parsed comment) recorded them: no entry repeats
\* the title of the entry right before it.
C16_TitleOnFirstOnly ==
    pc = "assemble" =>
        \A i \in 1..(Len(FlushedEntries) - 1) :
            \/ ~FlushedEntries[i].title.some
            \/ FlushedEntries[i + 1].title # FlushedEntries[i].title

\* C17: at the flush a Changed entry and an Added entry of the same release
\* never both reach the page: for the three allowed symbols the Changed
\* entries are dropped, and for any other symbol the conversion is fatal.
C17_ChangedAddedCollapse ==
    pc = "assemble" =>
        \A i, j \in 1..Len(FlushedEntries) :
            LET ti == FlushedEntries[i].title.v
                tj == FlushedEntries[j].title.v
            IN StartsWith(ti, <<"C","h","a","n","g","e","d"," ","i","n"," ","C","I","A","O"," ">>) /\ StartsWith(tj, <<"A","d","d","e","d"," ","i","n"," ","C","I","A","O"," ">>)
                   => From(ti, Len(<<"C","h","a","n","g","e","d"," ","i","n"," ","C","I","A","O"," ">>) + 1)
                          # From(tj, Len(<<"A","d","d","e","d"," ","i","n"," ","C","I","A","O"," ">>) + 1)

\* the call failed with the error of a block met after the flush
UnexpectedBlock ==
    pc' = "raised" /\ exc' = [type |-> "ValueError", msg |-> "Unexpected block"]

\* C18: once the version store carries the flushed marker, recording a
\* version block, by the directive path or by the comment path, fails with
\* the "Unexpected block" error and leaves the store as it was; while the
\* marker is not set, recording never fails with that error.
C18_NoRecordAfterFlush ==
    [][pc = "call" /\ arg.fn = "make_para_blocks"
       /\ arg.node.tagname \in {"versionadded", "versionchanged", "comment"} =>
          IF store_versions.DONE
          THEN UnexpectedBlock /\ store_versions' = store_versions /\ ret' = <<>>
          ELSE ~UnexpectedBlock]_vars

\* a version block was refused after the flush and left the held
\* entry in place
C18_Witness ==
    /\ pc = "raised"
    /\ exc = [type |-> "ValueError", msg |-> "Unexpected block"]
    /\ arg.node \in {CommentAdded, AddedMore}
    /\ store_versions.DONE
    /\ Len(store_versions.versionadded) = 1

\* the titles of the section an extraction step looks for, none for a step
\* that looks for no section
SectionOf(step) ==
    CASE step \in {"find_notes", "find_notes2"} -> {<<"N","o","t","e","s">>}
      [] step = "find_references" -> {<<"R","e","f","e","r","e","n","c","e","s">>}
      [] step = "find_examples" -> {<<"E","x","a","m","p","l","e","s">>, <<"E","x","a","m","p","l","e">>}
      [] OTHER -> {}

\* the node a step meets first: the first node of the Description run, or
\* the node after the heading of the section the step extracts
FirstMet ==
    IF pc = "find_desc" /\ Len(nodes) >= 1 THEN <<nodes[1]>>
    ELSE IF /\ Len(nodes) >= 2
            /\ nodes[1].tagname = "rubric"
            /\ Strip(NodeText(nodes[1])) \in SectionOf(pc)
    THEN <<nodes[2]>>
    ELSE <<>>

\* the number of entries the version store holds
Recorded(store) == Len(store.versionadded) + Len(store.versionchanged)

\* C19: a version block is recorded in the version store wherever the
\* traversal meets it: at the head of the Description run, of a Notes
\* section, of a References section or of an Examples section.
C19_RecordedAnywhere ==
    [][FirstMet # <<>> /\ FirstMet[1].tagname \in {"versionadded", "versionchanged"}
          => Recorded(store_versions') > Recorded(store_versions)]_vars

\* the release that Sherpa version 4.m.p is published in
ExpectedRelease(m, p) ==
    IF p = 0 THEN <<"4",".">> \o Digits(m)
    ELSE IF m \in 13..17 THEN <<"4",".">> \o Digits(m + 1)
    ELSE IF m = 12 /\ p = 2 THEN <<"4",".","1","3">>
    ELSE IF m = 10 /\ p = 1 THEN <<"4",".","1","1">>
    ELSE Release(m, p)

\* a word of exactly three dot-separated components, the first being 4
ThreeOfSeries4(word) ==
    /\ Len(SelectSeq(word, LAMBDA c : c = ".")) = 2
    /\ StartsWith(word, <<"4",".">>)

\* the title the entry of a well-formed version block is due
ExpectedTitle(tagname, word) ==
    LET mp == CHOOSE x \in (0..30) \X (0..9) : Release(x[1], x[2]) = word
    IN (IF tagname = "versionadded" THEN <<"A","d","d","e","d">> ELSE <<"C","h","a","n","g","e","d">>)
           \o <<" ","i","n"," ","C","I","A","O"," ">> \o ExpectedRelease(mp[1], mp[2])

\* C20: the entry a version directive records is titled
\* "<Added|Changed> in CIAO <r>", r being the translation of the first word
\* of its first paragraph: 4.m.0 gives 4.m; 4.m.p with m in 13..17 and p not
\* 0 gives 4.(m+1); 4.12.2 gives 4.13; 4.10.1 gives 4.11; any other 4.m.p
\* is kept. A first word that has not exactly three dot-separated
\* components, or whose first component is not 4, is fatal. (A title the
\* store already gave out is not repeated on the new entry.)
C20_TitleTranslation ==
    [][/\ pc = "call"
       /\ arg.fn = "make_para_blocks"
       /\ arg.node.tagname \in {"versionadded", "versionchanged"}
       /\ ~store_versions.DONE
       =>
       LET word == Split1(NodeText(arg.node.kids[1]))[1]
           before == Len(store_versions[arg.node.tagname])
       IN IF ThreeOfSeries4(word)
          THEN LET title == ExpectedTitle(arg.node.tagname, word)
               IN /\ pc' = "returned"
                  /\ Len(store_versions'[arg.node.tagname]) > before
                  /\ store_versions'[arg.node.tagname][before + 1].title
                         = IF title \in store_versions.titles THEN None
                           ELSE Some(title)
                  /\ title \in store_versions'.titles
          ELSE /\ pc' = "raised"
               /\ exc'.type = "AssertionError"
               /\ store_versions' = store_versions]_vars

\* version 4.10.1 was recorded as changed in release 4.11
C20_Witness ==
    /\ pc = "returned"
    /\ arg.node = Versioned("versionchanged", <<"4",".","1","0",".","1"," ","T","e","x","t",".">>)
    /\ Len(store_versions.versionchanged) = 1
    /\ store_versions.versionchanged[1].title = Some(<<"C","h","a","n","g","e","d"," ","i","n"," ","C","I","A","O"," ","4",".","1","1">>)

\* C21: merge_metadata(base, None) returns a mapping equal to base, key for
\* key and value for value.
C21_MergeNoneIdentity ==
    [][pc = "call" /\ arg.fn = "merge_metadata" /\ ~arg.override.some =>
          /\ pc' = "returned"
          /\ ret' = <<arg.base>>
          /\ DOMAIN ret'[1] = DOMAIN arg.base
          /\ \A k \in DOMAIN arg.base : ret'[1][k] = arg.base[k]]_vars

\* a dictionary whose keywords hold a word twice came back as it was
C21_Witness ==
    /\ pc = "returned"
    /\ arg.fn = "merge_metadata"
    /\ ~arg.override.some
    /\ arg.base.refkeywords = Some(<<"f","i","t"," "," ","d","a","t","a"," ","f","i","t">>)
    /\ ret[1].refkeywords = Some(<<"f","i","t"," "," ","d","a","t","a"," ","f","i","t">>)

\* the set of the words of a sequence
WordSet(ws) == {ws[i] : i \in 1..Len(ws)}

\* the ahelp dictionary names keys of the docstring dictionary only
KnownKeys == arg.override.some /\ DOMAIN arg.override.v \subseteq DOMAIN arg.base

\* C22: for the keys refkeywords, seealsogroups and displayseealsogroups the
\* merged value is the sorted, space-joined set union of the
\* whitespace-separated words of the two values; merging the same
\* dictionary again changes nothing on these keys, and swapping the two
\* values of such a key gives the same merged value.
C22_MultiValueUnion ==
    [][pc = "call" /\ arg.fn = "merge_metadata" /\ KnownKeys =>
          \A k \in DOMAIN arg.override.v \cap MultiValueKeys :
              LET b == arg.base[k]
                  a == arg.override.v[k]
                  out == ret'[1][k].v
                  toks == Split(out)
                  again == merge_metadata(Ctx, ret'[1], arg.override)
                  swapped == merge_metadata(Ctx, [arg.base EXCEPT ![k] = a],
                                            Some([j \in {k} |-> b]))
              IN /\ pc' = "returned"
                 /\ WordSet(toks) = WordSet(Split(b.v)) \cup WordSet(Split(a.v))
                 /\ \A i \in 1..(Len(toks) - 1) : StrLess(toks[i], toks[i + 1])
                 /\ out = Join(toks, <<" ">>)
                 /\ again.out[k] = ret'[1][k]
                 /\ swapped.out[k] = ret'[1][k]]_vars

\* keywords that repeat a word were merged with keywords out of order
C22_Witness ==
    /\ pc = "returned"
    /\ arg.fn = "merge_metadata"
    /\ arg.base.refkeywords = Some(<<"f","i","t"," "," ","d","a","t","a"," ","f","i","t">>)
    /\ arg.override.some
    /\ "refkeywords" \in DOMAIN arg.override.v
    /\ arg.override.v["refkeywords"] = Some(<<"m","o","d","e","l"," ","f","i","t">>)
    /\ ret[1].refkeywords = Some(<<"d","a","t","a"," ","f","i","t"," ","m","o","d","e","l">>)

\* C23: for every key other than the three multi-value keys a value of the
\* override replaces the value of base; an override with a key that base
\* lacks makes the merge fail, and no merged mapping is returned.
C23_ReplaceOrFail ==
    [][pc = "call" /\ arg.fn = "merge_metadata" /\ arg.override.some =>
          IF KnownKeys
          THEN /\ pc' = "returned"
               /\ DOMAIN ret'[1] = DOMAIN arg.base
               /\ \A k \in DOMAIN arg.base \ MultiValueKeys :
                      ret'[1][k] = IF k \in DOMAIN arg.override.v
                                   THEN arg.override.v[k] ELSE arg.base[k]
          ELSE /\ pc' = "raised"
               /\ exc'.type = "AssertionError"
               /\ ret' = <<>>]_vars

\* an override with the unknown key "author" was refused
C23_Witness ==
    /\ pc = "raised"
    /\ arg.fn = "merge_metadata"
    /\ arg.override.some
    /\ "author" \in DOMAIN arg.override.v
    /\ "pkg" \in DOMAIN arg.override.v
    /\ ret = <<>>

\* the context of each name of the model, read off the rules of find_context
ContextTable ==
    {<<<<"g","e","t","_","c","o","n","f","_","o","p","t">>, <<"c","o","n","f","i","d","e","n","c","e">>>>, <<<<"g","e","t","_","m","e","t","h","o","d","_","n","a","m","e">>, <<"m","e","t","h","o","d","s">>>>,
     <<<<"g","e","t","_","m","e","t","h","o","d","_","p","l","o","t">>, <<"m","e","t","h","o","d","s">>>>, <<<<"f","i","t","_","b","k","g">>, <<"f","i","t","t","i","n","g">>>>,
     <<<<"n","o","t","i","c","e","2","d","_","i","m","a","g","e">>, <<"f","i","l","t","e","r","i","n","g">>>>, <<<<"g","e","t","_","x","s","a","b","u","n","d">>, <<"m","o","d","e","l","i","n","g">>>>,
     <<<<"g","e","t","_","s","t","a","t","_","n","a","m","e">>, <<"s","t","a","t","i","s","t","i","c","s">>>>, <<<<"p","l","o","t","_","f","i","t">>, <<"p","l","o","t","t","i","n","g">>>>,
     <<<<"g","e","t","_","d","a","t","a","_","p","l","o","t">>, <<"p","l","o","t","t","i","n","g">>>>, <<<<"g","r","o","u","p","_","p","l","o","t">>, <<"p","l","o","t","t","i","n","g">>>>,
     <<<<"g","r","o","u","p","_","c","o","u","n","t","s">>, <<"d","a","t","a">>>>, <<<<"c","r","e","a","t","e","_","a","r","f">>, <<"d","a","t","a">>>>,
     <<<<"m","u","l","t","i","t","_","p","d","f">>, <<"u","t","i","l","i","t","i","e","s">>>>, <<<<"g","e","t","_","p","s","f","_","i","m","a","g","e">>, <<"v","i","s","u","a","l","i","z","a","t","i","o","n">>>>,
     <<<<"l","i","s","t","_","p","s","f","_","i","d","s">>, <<"i","n","f","o">>>>, <<<<"d","e","l","e","t","e","_","p","i","l","e","u","p","_","m","o","d","e","l">>, <<"m","o","d","e","l">>>>,
     <<<<"f","i","t">>, <<"s","h","e","r","p","a","i","s","h">>>>, <<<<"p","l","o","t">>, <<"s","h","e","r","p","a","i","s","h">>>>,
     <<<<"r","e","g","r","o","u","p">>, <<"s","h","e","r","p","a","i","s","h">>>>}

\* the context the page of the symbol is due
ExpectedContext ==
    IF symbol.metadata.some /\ "context" \in DOMAIN symbol.metadata.v
    THEN symbol.metadata.v["context"]
    ELSE IF symbol.ismodel THEN Some(<<"m","o","d","e","l","s">>)
    ELSE Some((CHOOSE row \in ContextTable : row[1] = symbol.name)[2])

\* C24: a context that the ahelp metadata supplies is kept; without one the
\* page gets the context of the first rule of find_context that matches (a
\* model component first, then the name, prefix and membership rules in
\* source order), and "sherpaish" exactly when no rule matches.
C24_FallbackContext ==
    corpus = "context" /\ pc = "return" /\ result.kind = "tree" =>
        result.tree[1].attrs.context = ExpectedContext

\* a name that the plotting rule and the later data rule both match was
\* classified by the first of them
C24_Witness ==
    /\ corpus = "context"
    /\ pc = "return"
    /\ result.kind = "tree"
    /\ symbol.name = <<"g","r","o","u","p","_","p","l","o","t">>
    /\ ~symbol.metadata.some
    /\ result.tree[1].attrs.context = Some(<<"p","l","o","t","t","i","n","g">>)

\* the place of a child of ENTRY in the fixed order, 0 for an element that
\* has none
Place(el) ==
    CASE el.tag = "SYNOPSIS" -> 1
      [] el.tag = "SYNTAX" -> 2
      [] el.tag = "DESC" -> 3
      [] el.tag = "QEXAMPLELIST" -> 4
      [] el.tag = "ADESC" /\ el.title = Some(<<"P","A","R","A","M","E","T","E","R","S">>) -> 5
      [] el.tag = "ADESC" /\ el.title = Some(<<"W","a","r","n","i","n","g">>) -> 6
      [] el.tag = "ADESC" /\ el.title = Some(<<"N","o","t","e","s">>) -> 7
      [] el.tag = "ADESC" /\ el.title = Some(<<"R","e","f","e","r","e","n","c","e","s">>) -> 9
      [] el.tag = "ADESC" /\ el.title = Some(<<"C","h","a","n","g","e","s"," ","i","n"," ","C","I","A","O">>) -> 10
      [] el.tag = "ADESC" /\ el.title = Some(<<"X","S","P","E","C"," ","v","e","r","s","i","o","n">>) -> 11
      [] el.tag = "BUGS" -> 12
      [] el.tag = "LASTMODIFIED" -> 13
      [] OTHER -> 0

\* the children of the ENTRY of the page returned
EntryKids == result.tree[1].entry.kids

\* the children of ENTRY that stand at a place
KidsAt(p) == SelectSeq(EntryKids, LAMBDA el : Place(el) = p)

\* C25: the children of ENTRY stand in the order Synopsis, Syntax,
\* Description, Examples, Parameters, Warnings, Notes, duplicate Notes,
\* References, Version history; a section that was not found is skipped
\* and none stands twice; the XSPEC notice follows exactly when the name
\* holds "xs"; BUGS and LASTMODIFIED are always the last two children.
C25_EntryOrder ==
    corpus = "page" /\ pc = "return" /\ result.kind = "tree" =>
        LET n == Len(EntryKids)
        IN /\ \A i \in 1..n : Place(EntryKids[i]) # 0
           /\ \A i \in 1..(n - 1) :
                  \/ Place(EntryKids[i]) < Place(EntryKids[i + 1])
                  \/ Place(EntryKids[i]) = 7 /\ Place(EntryKids[i + 1]) = 7
           /\ KidsAt(1) = sec.synopsis
           /\ KidsAt(2) = sec.syntax
           /\ KidsAt(3) = sec.desc
           /\ KidsAt(4) = sec.examples
           /\ KidsAt(5) = sec.params
           /\ KidsAt(6) = sec.warnings
           /\ KidsAt(7) = sec.notes \o sec.notes2
           /\ Len(sec.notes) <= 1 /\ Len(sec.notes2) <= 1
           /\ KidsAt(9) = sec.refs
           /\ KidsAt(10) = sec.versioninfo
           /\ Len(KidsAt(11)) = (IF Find(symbol.name, <<"x","s">>) # 0 THEN 1 ELSE 0)
           /\ n >= 2
           /\ EntryKids[n - 1].tag = "BUGS"
           /\ EntryKids[n].tag = "LASTMODIFIED"
           /\ Len(KidsAt(12)) = 1 /\ Len(KidsAt(13)) = 1

\* the page of a function whose name holds "xs" has every section, the
\* Notes twice, and the XSPEC notice
C25_Witness ==
    /\ corpus = "page"
    /\ pc = "return"
    /\ result.kind = "tree"
    /\ symbol.name = <<"g","e","t","_","x","s","a","b","u","n","d">>
    /\ Len(EntryKids) = 13
    /\ [i \in 1..13 |-> Place(EntryKids[i])] = <<1, 2, 3, 4, 5, 6, 7, 7, 9, 10, 11, 12, 13>>

\* Scenario A: the summary "Perform a fit." and the parameter id
ScenarioA == <<Para(<<"P","e","r","f","o","r","m"," ","a"," ","f","i","t",".">>), FieldListId>>

\* the texts of the cells of the rows of the tables of an element
TableRows(el) ==
    LET tbls == SelectSeq(el.kids, LAMBDA k : k.tag = "TABLE")
    IN IF Len(tbls) # 1 THEN <<>>
       ELSE [i \in 1..Len(tbls[1].kids) |->
                [j \in 1..Len(tbls[1].kids[i].kids) |-> tbls[1].kids[i].kids[j].text]]

\* the conversion of Scenario A gave a page whose Synopsis and Parameters
\* table are these
ScenarioAGives(rows) ==
    /\ pc # "raised"
    /\ pc = "return" =>
          /\ result.kind = "tree"
          /\ Len(KidsAt(1)) = 1
          /\ KidsAt(1)[1].text = Some(<<"P","e","r","f","o","r","m"," ","a"," ","f","i","t",".">>)
          /\ Len(KidsAt(5)) = 1
          /\ TableRows(KidsAt(5)[1]) = rows

\* C26 as stated: converting [Paragraph("Perform a fit."), FieldList{param
\* "id": "dataset identifier"}] succeeds with Synopsis text "Perform a fit."
\* and a Parameters section whose table has the one row
\* ["id", "dataset identifier"].
C26_ScenarioA ==
    corpus = "page" /\ doc = ScenarioA /\ pc \in {"raised", "return"} =>
        ScenarioAGives(<<<<Some(<<"i","d">>), Some(<<"d","a","t","a","s","e","t"," ","i","d","e","n","t","i","f","i","e","r">>)>>>>)

\* C26 as the code has it: the conversion succeeds with Synopsis text
\* "Perform a fit." and a Parameters section whose table has the heading row
\* ["Parameter", "Definition"] followed by the one row
\* ["id", "dataset identifier"].
C26_ScenarioAHeading ==
    corpus = "page" /\ doc = ScenarioA /\ pc \in {"raised", "return"} =>
        ScenarioAGives(<<<<Some(<<"P","a","r","a","m","e","t","e","r">>), Some(<<"D","e","f","i","n","i","t","i","o","n">>)>>,
                         <<Some(<<"i","d">>), Some(<<"d","a","t","a","s","e","t"," ","i","d","e","n","t","i","f","i","e","r">>)>>>>)

\* the page of Scenario A was returned for the function fit
C26_Witness ==
    /\ corpus = "page"
    /\ doc = ScenarioA
    /\ symbol.name = <<"f","i","t">>
    /\ pc = "return"
    /\ result.kind = "tree"
    /\ Len(KidsAt(5)) = 1
    /\ Len(TableRows(KidsAt(5)[1])) = 2

\* what follows the last dot of a text, the whole text when it has none
RECURSIVE LastComponent(_)
LastComponent(s) ==
    IF Find(s, <<".">>) = 0 THEN s ELSE LastComponent(From(s, Find(s, <<".">>) + 1))

\* the rendering of a title reference by the namespace rule alone: the last
\* component of a text that begins with "sherpa." or "~", in backquotes, the
\* two model names in lower case; a text without namespace unchanged in
\* backquotes; a failure for a namespace that cannot be taken off
NamespaceRule(out) ==
    LET last == LastComponent(out)
        named == StartsWith(out, <<"s","h","e","r","p","a",".">>) \/ StartsWith(out, <<"~">>)
    IN IF named /\ Find(out, <<".">>) # 0
       THEN /\ pc' = "returned"
            /\ ret' = <<Quoted(IF last \in {<<"J","D","P","i","l","e","u","p">>, <<"P","S","F","M","o","d","e","l">>}
                               THEN Lower(last) ELSE last)>>
       ELSE IF named \/ StartsWith(out, <<"s","h","e","r","p","a">>)
       THEN pc' = "raised" /\ exc'.type = "AssertionError" /\ ret' = <<>>
       ELSE pc' = "returned" /\ ret' = <<Quoted(out)>>

\* the six module names that are rendered whole
WholeModules ==
    {<<"s","h","e","r","p","a",".","s","i","m">>, <<"s","h","e","r","p","a",".","u","t","i","l","s">>, <<"s","h","e","r","p","a",".","a","s","t","r","o",".","d","a","t","a","s","t","a","c","k">>, <<"s","h","e","r","p","a",".","u","i">>,
     <<"s","h","e","r","p","a",".","a","s","t","r","o",".","u","i">>, <<"s","h","e","r","p","a",".","u","t","i","l","s",".","l","o","g","g","i","n","g">>}

\* astext is called on a title reference
TitleReferenceCall ==
    pc = "call" /\ arg.fn = "astext" /\ arg.node.tagname = "title_reference"

VersionTags == {"versionadded", "versionchanged"}

\* C28: a Description is never produced with zero children: when the leading
\* run taken by find_desc holds only versionadded and versionchanged blocks
\* and there is no synonym, find_desc produces no DESC, and no DESC without
\* children is part of the page.
C28_NoEmptyDescription ==
    /\ \A i \in DOMAIN sec.desc : Len(sec.desc[i].kids) > 0
    /\ Len(steps) >= 3 /\ pc # "raised" /\ ~symbol.synonyms.some
       /\ consumed[3] # <<>>
       /\ (\A i \in DOMAIN consumed[3] : consumed[3][i].tagname \in VersionTags)
       => sec.desc = <<>>
    /\ pc = "return" /\ result.kind = "tree" =>
          \A i \in DOMAIN result.tree[1].entry.kids :
              result.tree[1].entry.kids[i].tag = "DESC"
              => Len(result.tree[1].entry.kids[i].kids) > 0

\* a doctest_block, block_quote or literal_block
CodeLike(n) == n.tagname \in {"doctest_block", "block_quote", "literal_block"}

\* a paragraph whose text begins with a lower-case letter
StartsLower(n) ==
    n.tagname = "paragraph" /\ NodeText(n) # <<>> /\ IsLowerChar(NodeText(n)[1])

\* the places of a section where an example starts: the first node, and the
\* node after a code-like node unless it is a lower-case paragraph
ExampleStarts(ls) ==
    {i \in 1..Len(ls) : i = 1 \/ (CodeLike(ls[i - 1]) /\ ~StartsLower(ls[i]))}

\* the elements the nodes of an example convert to, in the order of the nodes
RECURSIVE ExampleConverted(_)
ExampleConverted(run) ==
    IF run = <<>> THEN <<>>
    ELSE example_blocks(Ctx, make_para_blocks(Ctx, run[1]).out, <<>>).out
         \o ExampleConverted(Tail(run))

\* the examples of the section ls that start at s or later, in order
RECURSIVE ExamplesFrom(_, _)
ExamplesFrom(ls, s) ==
    IF s > Len(ls) THEN <<>>
    ELSE LET later == {t \in ExampleStarts(ls) \cup {Len(ls) + 1} : t > s}
             e == CHOOSE t \in later : \A u \in later : t <= u
         IN <<AddChild(Element("QEXAMPLE"),
                       [Element("DESC") EXCEPT
                           !.kids = ExampleConverted(SubSeq(ls, s, e - 1))])>>
            \o ExamplesFrom(ls, e)

\* the children of the DESC blocks of a list of examples, one after another
RECURSIVE DescChildren(_)
DescChildren(qs) ==
    IF qs = <<>> THEN <<>> ELSE qs[1].kids[1].kids \o DescChildren(Tail(qs))

\* find_examples is called on a document that starts at an Examples heading
ExamplesCall ==
    /\ pc = "call" /\ arg.fn = "find_examples"
    /\ arg.node.kids # <<>>
    /\ arg.node.kids[1].tagname = "rubric"
    /\ Strip(NodeText(arg.node.kids[1])) \in {<<"E","x","a","m","p","l","e","s">>, <<"E","x","a","m","p","l","e">>}

\* C29: find_examples splits the nodes between the Examples rubric and the
\* next rubric into QEXAMPLE elements in document order. An example starts
\* at the first node and at the node after each code-like node, except that
\* a paragraph that follows a code-like node and begins with a lower-case
\* letter goes to the description of the previous example. Every QEXAMPLE
\* has exactly one DESC child, every converted node lands in exactly one
\* DESC, and a node of any other kind in the section is fatal.
C29_ExampleSplit ==
    [][ExamplesCall =>
          LET ls == LeadingRun(Tail(arg.node.kids), {"rubric"})
          IN IF \E i \in 1..Len(ls) : ls[i].tagname \notin
                    {"paragraph", "doctest_block", "block_quote", "literal_block",
                     "bullet_list"}
             THEN pc' = "raised"
             ELSE pc' = "returned" =>
                    /\ Len(ret') = 1
                    /\ ret'[1].tag = "QEXAMPLELIST"
                    /\ ret'[1].kids = ExamplesFrom(ls, 1)
                    /\ \A i \in 1..Len(ret'[1].kids) :
                          /\ ret'[1].kids[i].tag = "QEXAMPLE"
                          /\ Len(ret'[1].kids[i].kids) = 1
                          /\ ret'[1].kids[i].kids[1].tag = "DESC"
                    /\ DescChildren(ret'[1].kids) = ExampleConverted(ls)
                    /\ nodes' = SubSeq(arg.node.kids, Len(ls) + 2, Len(arg.node.kids))]_vars

\* text, code, a lower-case sentence and more code made one example, and the
\* text after that code a second one
C29_Witness ==
    /\ pc = "returned"
    /\ arg.fn = "find_examples"
    /\ arg.node.kids =
          <<Rubric(<<"E","x","a","m","p","l","e","s">>), Para(<<"F","i","t"," ","t","h","e"," ","d","a","t","a",".">>), Doctest(<<">",">",">"," ","f","i","t","(",")">>),
            Para(<<"t","h","e","n"," ","p","l","o","t",".">>), Doctest(<<">",">",">"," ","p","l","o","t","(",")">>), Para(<<"F","i","t"," ","a","g","a","i","n",".">>)>>
    /\ Len(ret) = 1
    /\ Len(ret[1].kids) = 2
    /\ Len(ret[1].kids[1].kids[1].kids) = 4
    /\ Len(ret[1].kids[2].kids[1].kids) = 1

\* how many times e stands in the sequence s
Occurrences(s, e) == Cardinality({i \in 1..Len(s) : s[i] = e})

\* the version-history sections among the children of an ENTRY
HistorySections(kids) ==
    SelectSeq(kids, LAMBDA el : el.tag = "ADESC" /\ el.title = Some(<<"C","h","a","n","g","e","s"," ","i","n"," ","C","I","A","O">>))

\* C30: the consolidated version-history section ("Changes in CIAO") is part
\* of the output exactly when at least one Added or Changed entry is in the
\* store at flush time; it is never written without children, and every
\* entry that is in the store at the flush appears in it exactly once.
C30_HistorySection ==
    [][/\ pc = "flush" /\ pc' = "assemble" =>
             LET held == store_versions.versionchanged \o store_versions.versionadded
                 out == IF sec'.versioninfo = <<>> THEN <<>>
                        ELSE sec'.versioninfo[1].kids
             IN /\ sec'.versioninfo # <<>> <=> held # <<>>
                /\ \A i \in 1..Len(sec'.versioninfo) :
                      /\ sec'.versioninfo[i].title = Some(<<"C","h","a","n","g","e","s"," ","i","n"," ","C","I","A","O">>)
                      /\ sec'.versioninfo[i].kids # <<>>
                /\ Len(sec'.versioninfo) <= 1
                /\ Len(out) = Len(held)
                /\ \A i \in 1..Len(held) :
                      Occurrences(out, held[i]) = Occurrences(held, held[i])
       /\ pc = "assemble" /\ pc' = "return" /\ result'.kind = "tree" =>
             HistorySections(result'.tree[1].entry.kids) = sec.versioninfo]_vars

\* a page was returned whose version-history section holds the one Changed
\* and the one Added entry of the store
C30_Witness ==
    /\ pc = "return"
    /\ result.kind = "tree"
    /\ Len(store_versions.versionchanged) = 1
    /\ Len(store_versions.versionadded) = 1
    /\ Len(HistorySections(result.tree[1].entry.kids)) = 1
    /\ HistorySections(result.tree[1].entry.kids)[1].kids
          = store_versions.versionchanged \o store_versions.versionadded

=============================================================================
